---------------------------- MODULE Spec2Model ----------------------------
(***************************************************************************)
(* Model of the quantitative core of the lake-basin visualiser             *)
(* (utils/math: processRawDemData, calculatePolynomialArea,                *)
(* calculateAreaIntegral, calculateYearFromArea, calculateHydraulics).     *)
(*                                                                         *)
(* JavaScript numbers are modelled as tagged values: a finite number       *)
(* carries an integer, and NaN, +Infinity and -Infinity are separate       *)
(* tags, so that isNaN, the comparisons and Math.min/Math.max behave as    *)
(* in the language (every comparison with NaN is false).                   *)
(***************************************************************************)
EXTENDS Integers, Sequences, FiniteSets, TLC

(***************************************************************************)
(* Bounds of the model.                                                    *)
(***************************************************************************)
MaxDim == 3          \* origWidth, origHeight range over 0..MaxDim
MaxCells == 6        \* rasters have at most MaxCells cells
MaxTarget == 3       \* targetMaxSize ranges over -MaxNegTarget..MaxTarget
MaxNegTarget == 1
MaxBelow == 10       \* elevations from LOWER_LIMIT - MaxBelow ...
MaxAbove == 200      \* ... to LOWER_LIMIT + MaxAbove, in whole metres
MaxYearSteps == 20   \* years 1800, 1825, ... 1800 + 25 * MaxYearSteps
MaxHeightArg == 12   \* getColorByHeight: height in -2..MaxHeightArg
MaxMaxArg == 10      \* getColorByHeight: max in -1..MaxMaxArg
MaxVertices == 3     \* TerrainMesh: at most MaxVertices vertices
MaxGenDim == 2       \* generateTerrainData: width, depth in 0..MaxGenDim
MaxCalls == 3        \* generateTerrainData is called at most MaxCalls times
MaxFineCells == 3    \* Float32Array rasters have at most MaxFineCells cells
MaxInFlight == 2     \* App: loads and uploads waiting at the same time
MaxVersion == 2      \* App: terrain changes that are started

(***************************************************************************)
(* JavaScript number values.                                               *)
(***************************************************************************)
Num(n) == [k |-> "num", v |-> n]
NaN == [k |-> "nan", v |-> 0]
PosInf == [k |-> "inf", v |-> 0]
NegInf == [k |-> "ninf", v |-> 0]

IsNaN(a) == a.k = "nan"

\* a < b as the language evaluates it: false when either side is NaN
Lt(a, b) ==
  IF IsNaN(a) \/ IsNaN(b) THEN FALSE
  ELSE IF a.k = "ninf" THEN b.k # "ninf"
  ELSE IF a.k = "inf" THEN FALSE
  ELSE IF b.k = "inf" THEN TRUE
  ELSE IF b.k = "ninf" THEN FALSE
  ELSE a.v < b.v

Gt(a, b) == Lt(b, a)

\* a - b for the operands the program produces (finite or NaN)
Sub(a, b) ==
  IF IsNaN(a) \/ IsNaN(b) THEN NaN
  ELSE IF a.k = "num" /\ b.k = "num" THEN Num(a.v - b.v)
  ELSE IF a.k = b.k THEN NaN
  ELSE IF a.k = "num" THEN (IF b.k = "inf" THEN NegInf ELSE PosInf)
  ELSE a

\* a * b for the array length newWidth * newHeight
Mul(a, b) ==
  IF IsNaN(a) \/ IsNaN(b) THEN NaN
  ELSE IF a.k = "num" /\ b.k = "num" THEN Num(a.v * b.v)
  ELSE NaN

MathMax(a, b) ==
  IF IsNaN(a) \/ IsNaN(b) THEN NaN ELSE IF Lt(a, b) THEN b ELSE a

MathMin(a, b) ==
  IF IsNaN(a) \/ IsNaN(b) THEN NaN ELSE IF Lt(b, a) THEN b ELSE a

(***************************************************************************)
(* Exact arithmetic for the hydraulic formulas.  The polynomial terms are  *)
(* of magnitude 10^15..10^19 and cancel to areas of 10^7..10^8, far beyond *)
(* machine integers, so numbers are exact rationals over arbitrary-size    *)
(* integers: a magnitude is a little-endian sequence of limbs in base      *)
(* 10^4, an integer is a sign with a magnitude, a rational an integer      *)
(* numerator over a positive magnitude.  The program evaluates the same    *)
(* expressions in IEEE doubles; the rounding error of that evaluation      *)
(* (a few units against the magnitudes above) is not represented.          *)
(***************************************************************************)
Base == 10000

\* limbs up to the most significant non-zero one
NatTrim(a) ==
  IF a = <<>> THEN <<>>
  ELSE IF a[Len(a)] # 0 THEN a
  ELSE LET nz == {j \in 1..Len(a) : a[j] # 0}
       IN IF nz = {} THEN <<>>
          ELSE SubSeq(a, 1, CHOOSE j \in nz : \A k \in nz : k <= j)

RECURSIVE NatFromInt(_)
NatFromInt(n) ==
  IF n = 0 THEN <<>> ELSE <<n % Base>> \o NatFromInt(n \div Base)

LimbAt(a, j) == IF j <= Len(a) THEN a[j] ELSE 0

\* a + b.  In the limb-wise sums s, a carry enters position k when some
\* lower position overflows and every position between is full.
NatAdd(a, b) ==
  LET n == IF Len(a) < Len(b) THEN Len(b) ELSE Len(a)
      s == SubSeq([j \in 1..n |-> LimbAt(a, j) + LimbAt(b, j)], 1, n)
      CarryInto(k) ==
        \E j \in 1..(k - 1) :
          /\ s[j] >= Base
          /\ \A h \in (j + 1)..(k - 1) : s[h] = Base - 1
      limbs == SubSeq([k \in 1..n |->
                        (s[k] + IF CarryInto(k) THEN 1 ELSE 0) % Base], 1, n)
  IN IF CarryInto(n + 1) THEN limbs \o <<1>> ELSE limbs

\* a - b for a >= b.  In the limb-wise differences s, a borrow enters
\* position k when some lower position is negative and every position
\* between is zero.
NatSub(a, b) ==
  LET n == Len(a)
      s == SubSeq([j \in 1..n |-> a[j] - LimbAt(b, j)], 1, n)
      BorrowInto(k) ==
        \E j \in 1..(k - 1) :
          /\ s[j] < 0
          /\ \A h \in (j + 1)..(k - 1) : s[h] = 0
  IN NatTrim(SubSeq([k \in 1..n |->
                      (s[k] - (IF BorrowInto(k) THEN 1 ELSE 0) + Base) % Base],
                    1, n))

\* -1, 0 or 1 as a < b, a = b, a > b (trimmed magnitudes)
NatCmp(a, b) ==
  IF Len(a) # Len(b) THEN (IF Len(a) < Len(b) THEN -1 ELSE 1)
  ELSE LET diff == {j \in 1..Len(a) : a[j] # b[j]}
       IN IF diff = {} THEN 0
          ELSE LET top == CHOOSE j \in diff : \A k \in diff : k <= j
               IN IF a[top] < b[top] THEN -1 ELSE 1

\* a power of the base: zero limbs below a most significant limb 1
IsPowBase(a) ==
  /\ a # <<>>
  /\ a[Len(a)] = 1
  /\ \A j \in 1..(Len(a) - 1) : a[j] = 0

\* the sum of a[k - j + 1] * b[j] over j in lo..hi (column k of the long
\* multiplication), the range halved to keep the nesting shallow
RECURSIVE ProductColumn(_, _, _, _, _)
ProductColumn(a, b, k, lo, hi) ==
  IF lo > hi THEN 0
  ELSE IF lo = hi THEN a[k - lo + 1] * b[lo]
  ELSE ProductColumn(a, b, k, lo, (lo + hi) \div 2)
         + ProductColumn(a, b, k, (lo + hi) \div 2 + 1, hi)

\* a * b for non-zero a and b, b of at most MaxColumn limbs so that a
\* column stays below 2^31.  Each column is split into its three limbs,
\* which gives three magnitudes to add.
MaxColumn == 20
NatMulLimbs(a, b) ==
  LET n == Len(a) + Len(b) - 1
      s == SubSeq([k \in 1..n |->
                    ProductColumn(a, b, k,
                                  IF k > Len(a) THEN k - Len(a) + 1 ELSE 1,
                                  IF k < Len(b) THEN k ELSE Len(b))], 1, n)
      units == SubSeq([k \in 1..n |-> s[k] % Base], 1, n)
      carries == SubSeq([k \in 1..n |-> (s[k] \div Base) % Base], 1, n)
      upper == SubSeq([k \in 1..n |-> s[k] \div (Base * Base)], 1, n)
  IN NatAdd(NatAdd(NatTrim(units), NatTrim(<<0>> \o carries)),
            NatTrim(<<0, 0>> \o upper))

\* a * b: a power of the base shifts the other factor; otherwise the
\* shorter factor is taken MaxColumn limbs at a time
RECURSIVE NatMul(_, _)
NatMul(a, b) ==
  IF a = <<>> \/ b = <<>> THEN <<>>
  ELSE IF IsPowBase(b) THEN SubSeq(b, 1, Len(b) - 1) \o a
  ELSE IF IsPowBase(a) THEN SubSeq(a, 1, Len(a) - 1) \o b
  ELSE IF Len(a) < Len(b) THEN NatMul(b, a)
  ELSE IF Len(b) <= MaxColumn THEN NatMulLimbs(a, b)
  ELSE NatAdd(NatMulLimbs(a, SubSeq(b, 1, MaxColumn)),
              [j \in 1..MaxColumn |-> 0]
                \o NatMul(a, NatTrim(SubSeq(b, MaxColumn + 1, Len(b)))))

\* signed integers
ZMake(sg, mag) == IF mag = <<>> THEN [s |-> 0, m |-> <<>>]
                  ELSE [s |-> sg, m |-> mag]
ZFromInt(n) == IF n < 0 THEN ZMake(-1, NatFromInt(0 - n))
               ELSE ZMake(1, NatFromInt(n))
ZNeg(a) == ZMake(0 - a.s, a.m)
ZAdd(a, b) ==
  IF a.s = 0 THEN b
  ELSE IF b.s = 0 THEN a
  ELSE IF a.s = b.s THEN ZMake(a.s, NatAdd(a.m, b.m))
  ELSE LET c == NatCmp(a.m, b.m)
       IN IF c = 0 THEN ZMake(0, <<>>)
          ELSE IF c > 0 THEN ZMake(a.s, NatSub(a.m, b.m))
          ELSE ZMake(b.s, NatSub(b.m, a.m))
ZMul(a, b) == ZMake(a.s * b.s, NatMul(a.m, b.m))

\* rationals: numerator n (signed), denominator d (positive magnitude)
RNorm(a) ==
  IF a.n.s = 0 THEN [n |-> a.n, d |-> <<1>>]
  ELSE LET m == a.n.m
           len == IF Len(m) < Len(a.d) THEN Len(m) ELSE Len(a.d)
           first == CHOOSE j \in 1..len :
                      /\ m[j] # 0 \/ a.d[j] # 0
                      /\ \A k \in 1..(j - 1) : m[k] = 0 /\ a.d[k] = 0
       IN IF first = 1 THEN a
          ELSE [n |-> ZMake(a.n.s, SubSeq(m, first, Len(m))),
                d |-> SubSeq(a.d, first, Len(a.d))]

RInt(n) == [n |-> ZFromInt(n), d |-> <<1>>]
RNeg(a) == [n |-> ZNeg(a.n), d |-> a.d]
RSign(a) == a.n.s

\* the common denominator is the larger one when each divides the base's
\* powers, the product otherwise
RAdd(a, b) ==
  IF RSign(a) = 0 THEN b
  ELSE IF RSign(b) = 0 THEN a
  ELSE IF a.d = b.d THEN RNorm([n |-> ZAdd(a.n, b.n), d |-> a.d])
  ELSE IF IsPowBase(a.d) /\ IsPowBase(b.d)
    THEN IF Len(a.d) > Len(b.d)
           THEN RNorm([n |-> ZAdd(a.n, ZMul(b.n, ZMake(1,
                                   SubSeq(a.d, Len(b.d), Len(a.d))))),
                       d |-> a.d])
           ELSE RNorm([n |-> ZAdd(ZMul(a.n, ZMake(1,
                                   SubSeq(b.d, Len(a.d), Len(b.d)))), b.n),
                       d |-> b.d])
  ELSE RNorm([n |-> ZAdd(ZMul(a.n, ZMake(1, b.d)), ZMul(b.n, ZMake(1, a.d))),
              d |-> NatMul(a.d, b.d)])
RSub(a, b) == RAdd(a, RNeg(b))
RMul(a, b) ==
  IF RSign(a) = 0 \/ RSign(b) = 0 THEN RInt(0)
  ELSE RNorm([n |-> ZMul(a.n, b.n), d |-> NatMul(a.d, b.d)])
\* a / b for b # 0
RDiv(a, b) ==
  IF RSign(a) = 0 THEN RInt(0)
  ELSE RNorm([n |-> ZMul(a.n, ZMake(b.n.s, b.d)), d |-> NatMul(a.d, b.n.m)])
\* the signs decide when they differ
RLt(a, b) ==
  IF RSign(a) # RSign(b) THEN RSign(a) < RSign(b)
  ELSE RSign(RSub(a, b)) < 0
RLe(a, b) ==
  IF RSign(a) # RSign(b) THEN RSign(a) < RSign(b)
  ELSE RSign(RSub(a, b)) <= 0
REq(a, b) == RSign(RSub(a, b)) = 0
RMax(a, b) == IF RLt(a, b) THEN b ELSE a

RECURSIVE RPow(_, _)
RPow(a, k) == IF k = 0 THEN RInt(1) ELSE RMul(a, RPow(a, k - 1))

RECURSIVE NatFromLimbs(_)
NatFromLimbs(be) ==
  IF be = <<>> THEN <<>>
  ELSE NatTrim(NatFromLimbs(Tail(be)) \o <<Head(be)>>)

RECURSIVE PowBase(_)
PowBase(k) == IF k = 0 THEN <<1>> ELSE <<0>> \o PowBase(k - 1)

\* the decimal literal sg * (limbs, most significant first, base 10^4)
\* with the last frac limbs after the decimal point
RDecimal(sg, be, frac) ==
  RNorm([n |-> ZMake(sg, NatFromLimbs(be)), d |-> PowBase(frac)])

\* floor of a rational q >= 0 whose floor is below 2^width
RECURSIVE FloorBits(_, _, _)
FloorBits(q, acc, bit) ==
  IF bit = 0 THEN acc
  ELSE LET half == bit \div 2
           try == acc + half
       IN IF RLe(RInt(try), q) THEN FloorBits(q, try, half)
          ELSE FloorBits(q, acc, half)

FloorWidth == 1073741824
RFloor(q) == FloorBits(q, 0, FloorWidth)

(***************************************************************************)
(* processRawDemData: constants and helpers                                *)
(***************************************************************************)
NoDataLow == -12000
NoDataHigh == 12000

\* elevations are counted in units of 1 / MetreUnits metre, a power of two
MetreUnits == 4096
Metres(n) == Num(n * MetreUnits)

\* a Float32Array cell keeps FloatBits significant bits
FloatBits == 24

RECURSIVE BitLength(_)
BitLength(n) == IF n = 0 THEN 0 ELSE 1 + BitLength(n \div 2)

RECURSIVE Pow2(_)
Pow2(k) == IF k = 0 THEN 1 ELSE 2 * Pow2(k - 1)

\* the value a Float32Array cell holds after a number is stored in it:
\* the nearest float32, ties to even
Fround(a) ==
  IF a.k # "num" THEN a
  ELSE LET mag == IF a.v < 0 THEN 0 - a.v ELSE a.v
           extra == BitLength(mag) - FloatBits
           step == Pow2(extra)
           q == mag \div step
           r == mag % step
           up == 2 * r > step \/ (2 * r = step /\ q % 2 = 1)
           rounded == (IF up THEN q + 1 ELSE q) * step
       IN IF extra <= 0 THEN a
          ELSE Num(IF a.v < 0 THEN 0 - rounded ELSE rounded)

\* the sample values a raster cell may hold
Samples == {NaN, Metres(NoDataLow - 1), Metres(NoDataLow), Metres(NoDataHigh),
            Metres(NoDataHigh + 1)}

\* samples a Float32Array raster may hold: fractions of a metre next to
\* thousands of metres
FineSamples == {NaN, Num(-3), Num(-1), Num(1), Metres(8192),
                Metres(NoDataHigh + 1)}

MaxOf(a, b) == IF a < b THEN b ELSE a

\* scale as the exact quotient num / den (den = 0 stands for +Infinity,
\* num = 0 with den < 0 for the quotient -0)
ScaleAlways(ow, oh, target) == [num |-> MaxOf(ow, oh), den |-> target]

Scale(ow, oh, target) ==
  IF MaxOf(ow, oh) > target
    THEN [num |-> MaxOf(ow, oh), den |-> target]
    ELSE [num |-> 1, den |-> 1]

\* floor of p / q for q # 0
FloorQuot(p, q) == IF q > 0 THEN p \div q ELSE (0 - p) \div (0 - q)

\* floor replaced by ceil
FloorDivScaleCeil(n, sc) ==
  IF sc.den = 0 THEN Num(0)
  ELSE IF sc.num = 0 THEN NaN
  ELSE Num(0 - FloorQuot(0 - n * sc.den, sc.num))

\* Math.floor(n / scale)
FloorDivScale(n, sc) ==
  IF sc.den = 0 THEN Num(0)
  ELSE IF sc.num = 0 THEN NaN
  ELSE Num(FloorQuot(n * sc.den, sc.num))

\* Math.floor(n * scale)
FloorMulScale(n, sc) ==
  IF sc.den = 0 THEN (IF n = 0 THEN NaN ELSE PosInf)
  ELSE Num(FloorQuot(n * sc.num, sc.den))

\* new Float32Array(n): ToIndex(NaN) = 0
ArrayLength(n) == IF IsNaN(n) THEN 0 ELSE n.v

\* Math.min(Math.max(0, src), dim - 1)
SafeCoord(src, dim) == MathMin(MathMax(Num(0), src), Num(dim - 1))

SrcIdxWrongStride(sx, sy, ow, oh) ==
  IF IsNaN(sx) \/ IsNaN(sy) \/ sx.k # "num" \/ sy.k # "num" THEN NaN
  ELSE Num(sy.v * oh + sx.v)

\* safeY * origWidth + safeX
SrcIdx(sx, sy, ow, oh) ==
  IF IsNaN(sx) \/ IsNaN(sy) \/ sx.k # "num" \/ sy.k # "num" THEN NaN
  ELSE Num(sy.v * ow + sx.v)

\* rawData[idx]; a read outside the array yields undefined, which every
\* later test treats as NaN
RawAt(raw, idx) ==
  IF idx.k = "num" /\ idx.v >= 0 /\ idx.v < Len(raw) THEN raw[idx.v + 1]
  ELSE NaN

IsNoDataInclusive(val) ==
  IsNaN(val) \/ ~ Lt(Metres(NoDataLow), val) \/ ~ Gt(Metres(NoDataHigh), val)

\* isNaN(val) || val < -12000 || val > 12000
IsNoData(val) ==
  IsNaN(val) \/ Lt(val, Metres(NoDataLow)) \/ Gt(val, Metres(NoDataHigh))

FallbackRangeZero(mn, mx) ==
  IF mn = PosInf THEN <<Num(0), Num(0)>> ELSE <<mn, mx>>

\* line 389: if (minVal === Infinity) { minVal = 0; maxVal = 10; }
FallbackRange(mn, mx) ==
  IF mn = PosInf THEN <<Num(0), Metres(10)>> ELSE <<mn, mx>>

NormalizeNoFill(cell, mn) == Fround(Sub(cell, mn))

NormalizeUnshifted(cell, mn) ==
  IF IsNaN(cell) THEN Num(0) ELSE Fround(cell)

\* lines 393-397: fill a NaN cell with 0, shift a valid cell by minVal; the
\* difference is stored in the Float32Array
Normalize(cell, mn) ==
  IF IsNaN(cell) THEN Num(0) ELSE Fround(Sub(cell, mn))

(***************************************************************************)
(* Hydraulic model: constants and functions                                *)
(***************************************************************************)
\* -10.984357780264
C4 == RDecimal(-1, <<10, 9843, 5778, 264>>, 3)
\* 191820.49752582
C3 == RDecimal(1, <<19, 1820, 4975, 2582>>, 2)
\* -1256158182.19156
C2 == RDecimal(-1, <<12, 5615, 8182, 1915, 6000>>, 2)
\* 3656024105511.9
C1 == RDecimal(1, <<3, 6560, 2410, 5511, 9000>>, 1)
\* -3990277863318550
C0 == RDecimal(-1, <<3990, 2778, 6331, 8550>>, 0)
\* 0.7903
YEAR_SLOPE == RDecimal(1, <<7903>>, 1)
\* -1483.3
YEAR_INTERCEPT == RDecimal(-1, <<1483, 3000>>, 1)

LOWER_LIMIT == 4304
SquareMetresPerKm2 == 1000000
GramsPerTon == 1000000
\* 0.001
VolumeFloor == RDecimal(1, <<10>>, 1)

\* lines 433-440: the quartic before the clamp (the sum is exact, so the
\* order in which the terms are added does not matter)
PolynomialRaw(e) ==
  IF RSign(e) = 0 THEN C0
  ELSE LET term4 == RMul(C4, RPow(e, 4))
           term3 == RMul(C3, RPow(e, 3))
           term2 == RMul(C2, RPow(e, 2))
           term1 == RMul(C1, e)
           term0 == C0
       IN RAdd(term4, RAdd(term3, RAdd(term2, RAdd(term1, term0))))

calculatePolynomialAreaUnclamped(e) == PolynomialRaw(e)

calculatePolynomialArea(e) == RMax(RInt(0), PolynomialRaw(e))

calculateAreaIntegral(e) ==
  LET term5 == RMul(RDiv(C4, RInt(5)), RPow(e, 5))
      term4 == RMul(RDiv(C3, RInt(4)), RPow(e, 4))
      term3 == RMul(RDiv(C2, RInt(3)), RPow(e, 3))
      term2 == RMul(RDiv(C1, RInt(2)), RPow(e, 2))
      term1 == RMul(C0, e)
  IN RAdd(RAdd(RAdd(RAdd(term5, term4), term3), term2), term1)

calculateYearFromArea(areaKm2) ==
  RDiv(RSub(areaKm2, YEAR_INTERCEPT), YEAR_SLOPE)

VolumeAtUnguarded(e) ==
  RMax(RInt(0), RSub(calculateAreaIntegral(e),
                     calculateAreaIntegral(RInt(LOWER_LIMIT))))

\* lines 524-529
VolumeAt(e) ==
  RMax(RInt(0),
       IF RLt(RInt(LOWER_LIMIT), e)
         THEN RSub(calculateAreaIntegral(e),
                   calculateAreaIntegral(RInt(LOWER_LIMIT)))
         ELSE RInt(0))

ConcentrationOfAnyPositive(vol, mass) ==
  IF RLt(RInt(0), vol)
    THEN [value |-> RDiv(RMul(mass, RInt(GramsPerTon)), vol),
          divided |-> TRUE]
    ELSE [value |-> RInt(0), divided |-> FALSE]

\* lines 536-538; divided records whether the division was evaluated
ConcentrationOf(vol, mass) ==
  IF RLt(VolumeFloor, vol)
    THEN [value |-> RDiv(RMul(mass, RInt(GramsPerTon)), vol),
          divided |-> TRUE]
    ELSE [value |-> RInt(0), divided |-> FALSE]

MathRoundDown(q) == RFloor(q)

\* Math.round(q) = floor(q + 1/2), for the q >= 0 that reach it
MathRound(q) == RFloor(RAdd(q, RDiv(RInt(1), RInt(2))))

\* lines 541-542
EstimatedYearOf(area) ==
  MathRound(calculateYearFromArea(RDiv(area, RInt(SquareMetresPerKm2))))

(***************************************************************************)
(* getElevationFromYear: binary search of the elevation whose area is the  *)
(* area the linear year model gives.  The bracket ends low, high and mid   *)
(* are IEEE doubles in [4304, 4450]; every double in [4096, 8192) is a      *)
(* multiple of 2^-40, so a bracket end is held as its count of units of    *)
(* 2^-40 (a magnitude), and (low + high) / 2 is rounded as the double      *)
(* division rounds it.  Areas stay exact, as above.                        *)
(***************************************************************************)
SEARCH_LOW == 4304
SEARCH_HIGH == 4450
MaxIterationsPlusOne == 64 + 1

MaxIterations == 64
UlpBits == 40

RECURSIVE NatPowSmall(_, _)
NatPowSmall(b, k) ==
  IF k = 0 THEN <<1>> ELSE NatMul(NatPowSmall(b, k - 1), <<b>>)

\* quotient of a magnitude by one limb d, before trimming
RECURSIVE NatDivSmallR(_, _)
NatDivSmallR(a, d) ==
  IF a = <<>> THEN [q |-> <<>>, r |-> 0]
  ELSE LET hi == NatDivSmallR(Tail(a), d)
           cur == hi.r * Base + Head(a)
       IN [q |-> <<cur \div d>> \o hi.q, r |-> cur % d]

NatHalf(a) == NatTrim(NatDivSmallR(a, 2).q)

UnitsPerMetre == NatPowSmall(2, UlpBits)
FivePowUlpBits == NatPowSmall(5, UlpBits)

\* the double n (a whole number of metres) in units of 2^-40
ElevUnits(n) == NatMul(NatFromInt(n), UnitsPerMetre)

\* the value of u units of 2^-40: u * 5^40 / 10^40
ElevValue(u) ==
  RNorm([n |-> ZMake(1, NatMul(u, FivePowUlpBits)), d |-> PowBase(10)])

\* (low + high) / 2 in doubles: the sum lies in [8192, 16384), where doubles
\* are multiples of 2^-39, so an odd sum of units is rounded to the nearest
\* multiple of 2^-39, ties to the even one; the halving is then exact
Midpoint(lo, hi) ==
  LET sum == NatAdd(lo, hi)
      r == sum[1] % 4
      rounded == IF r = 1 THEN NatSub(sum, <<1>>)
                 ELSE IF r = 3 THEN NatAdd(sum, <<1>>)
                 ELSE sum
  IN NatHalf(rounded)

\* the midpoint without the rounding of the sum
MidpointExact(lo, hi) ==
  RDiv(RAdd(ElevValue(lo), ElevValue(hi)), RInt(2))

RAbs(a) == IF RSign(a) < 0 THEN RNeg(a) ELSE a

\* lines 473-476
TargetAreaM2(yr) ==
  LET targetAreaKm2 == RAdd(RMul(YEAR_SLOPE, yr), YEAR_INTERCEPT)
  IN RMax(RInt(0), RMul(targetAreaKm2, RInt(SquareMetresPerKm2)))

Epsilon == RInt(1)

ShortCircuitAtZero(target) == RLe(target, RInt(0))

\* line 486: if (targetAreaM2 <= 1) return low
ShortCircuit(target) == RLe(target, RInt(1))

\* line 492: Math.abs(area - targetAreaM2) < epsilon
WithinEpsilon(a, target) == RLt(RAbs(RSub(a, target)), Epsilon)

BracketUpdateSwapped(lo, hi, m, a, target) ==
  IF RLt(a, target) THEN [low |-> lo, high |-> m]
  ELSE [low |-> m, high |-> hi]

\* lines 497-501: the half of the bracket that is kept
BracketUpdate(lo, hi, m, a, target) ==
  IF RLt(a, target) THEN [low |-> m, high |-> hi]
  ELSE [low |-> lo, high |-> m]

(***************************************************************************)
(* getColorByHeight and its caller TerrainMesh.  Heights are whole         *)
(* numbers; the normalized height is an exact rational or one of NaN,      *)
(* +Infinity, -Infinity (a division by zero).                              *)
(***************************************************************************)
CNum(r) == [k |-> "num", v |-> r]
CNaN == [k |-> "nan", v |-> RInt(0)]
CPosInf == [k |-> "inf", v |-> RInt(0)]
CNegInf == [k |-> "ninf", v |-> RInt(0)]

\* line 558: height / max
Divide(h, m) ==
  IF m # 0 THEN CNum(RDiv(RInt(h), RInt(m)))
  ELSE IF h > 0 THEN CPosInf
  ELSE IF h < 0 THEN CNegInf
  ELSE CNaN

\* line 558: Math.max(v, 0)
MathMaxZero(v) ==
  IF v.k = "nan" THEN CNaN
  ELSE IF v.k = "inf" THEN CPosInf
  ELSE IF v.k = "ninf" THEN CNum(RInt(0))
  ELSE CNum(RMax(v.v, RInt(0)))

MathMinOneSkipped(v) == v

\* line 558: Math.min(v, 1)
MathMinOne(v) ==
  IF v.k = "nan" THEN CNaN
  ELSE IF v.k = "inf" THEN CNum(RInt(1))
  ELSE IF v.k = "ninf" THEN CNegInf
  ELSE IF RLt(RInt(1), v.v) THEN CNum(RInt(1)) ELSE v

\* colour stops, lines 562-565
SAND == <<RDecimal(1, <<8200>>, 1), RDecimal(1, <<7800>>, 1),
          RDecimal(1, <<5500>>, 1)>>
GRASS == <<RDecimal(1, <<2500>>, 1), RDecimal(1, <<5500>>, 1),
           RDecimal(1, <<2000>>, 1)>>
ROCK == <<RDecimal(1, <<4500>>, 1), RDecimal(1, <<4200>>, 1),
          RDecimal(1, <<3800>>, 1)>>
SNOW == <<RDecimal(1, <<9500>>, 1), RDecimal(1, <<9500>>, 1), RInt(1)>>

SandEnd == RDecimal(1, <<1000>>, 1)
GrassEnd == RDecimal(1, <<5000>>, 1)

\* v < r as the language evaluates it: false for NaN
CLess(v, r) == v.k = "ninf" \/ (v.k = "num" /\ RLt(v.v, r))

BandOfInclusive(tt) ==
  IF CLess(tt, SandEnd) \/ (tt.k = "num" /\ REq(tt.v, SandEnd))
    THEN "sand_grass"
  ELSE IF CLess(tt, GrassEnd) \/ (tt.k = "num" /\ REq(tt.v, GrassEnd))
    THEN "grass_rock"
  ELSE "rock_snow"

\* lines 568, 576, 584: the branch taken
BandOf(tt) ==
  IF CLess(tt, SandEnd) THEN "sand_grass"
  ELSE IF CLess(tt, GrassEnd) THEN "grass_rock"
  ELSE "rock_snow"

\* lines 570, 578, 586: position inside the band; anything but a finite t
\* makes every channel NaN (all colour stops are positive)
LocalT(tt, b) ==
  IF tt.k # "num" THEN CNaN
  ELSE IF b = "sand_grass" THEN CNum(RDiv(tt.v, SandEnd))
  ELSE IF b = "grass_rock"
    THEN CNum(RDiv(RSub(tt.v, SandEnd), RDecimal(1, <<4000>>, 1)))
  ELSE CNum(RDiv(RSub(tt.v, GrassEnd), RDecimal(1, <<5000>>, 1)))

\* line 554
lerp(start, end, lt) ==
  IF lt.k # "num" THEN CNaN
  ELSE CNum(RAdd(RMul(start, RSub(RInt(1), lt.v)), RMul(end, lt.v)))

\* lines 571-575, 579-583, 587-591: the three channels of a band
Gradient(b, lt) ==
  LET from == IF b = "sand_grass" THEN SAND
              ELSE IF b = "grass_rock" THEN GRASS ELSE ROCK
      to == IF b = "sand_grass" THEN GRASS
            ELSE IF b = "grass_rock" THEN ROCK ELSE SNOW
  IN <<lerp(from[1], to[1], lt), lerp(from[2], to[2], lt),
       lerp(from[3], to[3], lt)>>

\* lines 556-593; t, the branch and localT are each computed once, as
\* members of one-element sets
getColorByHeight(h, m) ==
  LET InBand(tt, b) ==
        {[t |-> tt, band |-> b, color |-> Gradient(b, lt)] :
           lt \in {LocalT(tt, b)}}
      AtT(tt) == UNION {InBand(tt, b) : b \in {BandOf(tt)}}
  IN CHOOSE res \in
       UNION {AtT(tt) : tt \in {MathMinOne(MathMaxZero(Divide(h, m)))}} :
         TRUE

\* TerrainMesh lines 66-70: the largest height, starting from 0
MaxH(data) ==
  LET cells == {data[k] : k \in 1..Len(data)} \cup {0}
  IN CHOOSE m \in cells : \A c \in cells : c <= m

\* TerrainMesh line 72
ColorMax(data, cfg) == IF MaxH(data) > 0 THEN MaxH(data) ELSE cfg.maxHeight

\* TerrainMesh line 75: heightData[i] || 0, vertices counted from 1
HeightAt(data, k) == IF k <= Len(data) THEN data[k] ELSE 0

(***************************************************************************)
(* generateTerrainData.  Heights are counted in 1/4000: dx and dz are      *)
(* halves and the valley term divides by 1000.  noise(x, z) is a fixed     *)
(* function of x and z whose values (sums of sines and cosines, between    *)
(* -17 and 17) are not computed; noiseTable holds them.  Storing a height  *)
(* as a float32 keeps its sign.                                            *)
(***************************************************************************)
HeightScale == 4000
NoiseBound == 17

\* lines 284-288: distance * distance / 1000 with dx = x - width / 2 and
\* dz = z - depth / 2
ValleyHeight(x, z, cfg) ==
  (2 * x - cfg.width) * (2 * x - cfg.width)
    + (2 * z - cfg.depth) * (2 * z - cfg.depth)

CellHeightUnclamped(x, z, cfg, noise) ==
  ValleyHeight(x, z, cfg) + HeightScale * noise[<<x, z>>]

\* lines 288-294
CellHeight(x, z, cfg, noise) ==
  IF CellHeightUnclamped(x, z, cfg, noise) < 0 THEN 0
  ELSE CellHeightUnclamped(x, z, cfg, noise)

\* lines 277-300: data[z * width + x], cells counted from 1
generateTerrainData(cfg, noise) ==
  [k \in 1..(cfg.width * cfg.depth) |->
     CellHeight((k - 1) % cfg.width, (k - 1) \div cfg.width, cfg, noise)]

(***************************************************************************)
(* App and Overlay                                                         *)
(***************************************************************************)
DEFAULT_CONFIG == [width |-> 128, depth |-> 128, cellSize |-> 1,
                   maxHeight |-> 40]

NothingHandled == [handler |-> "none", parsed |-> CNaN, before |-> RInt(0)]

\* Overlay lines 303-304
ABS_MIN_ELEVATION == 4304
ABS_MAX_ELEVATION == 4405

\* text is a sequence of one-character strings
DigitChars == <<"0", "1", "2", "3", "4", "5", "6", "7", "8", "9">>
Digits == {DigitChars[j] : j \in 1..10}
DigitValue(c) == (CHOOSE j \in 1..10 : DigitChars[j] = c) - 1

\* the number of leading characters of s that belong to chars
LeadingCount(s, chars) ==
  IF \A j \in 1..Len(s) : s[j] \in chars THEN Len(s)
  ELSE (CHOOSE j \in 1..Len(s) :
          /\ s[j] \notin chars
          /\ \A k \in 1..(j - 1) : s[k] \in chars) - 1

Blanks == {" "}
Drop(s, n) == SubSeq(s, n + 1, Len(s))
StartsWith(s, p) == Len(s) >= Len(p) /\ SubSeq(s, 1, Len(p)) = p

RECURSIVE Pow10(_)
Pow10(k) == IF k = 0 THEN 1 ELSE 10 * Pow10(k - 1)

RECURSIVE DigitsValue(_)
DigitsValue(ds) ==
  IF ds = <<>> THEN 0
  ELSE 10 * DigitsValue(SubSeq(ds, 1, Len(ds) - 1)) + DigitValue(ds[Len(ds)])

\* parseFloat: leading blanks, a sign, then Infinity or the longest prefix
\* digits [. digits]; NaN when no digit is found (exponents are not typed)
ParseFloat(text) ==
  LET s1 == Drop(text, LeadingCount(text, Blanks))
      neg == s1 # <<>> /\ s1[1] = "-"
      s2 == IF s1 # <<>> /\ s1[1] \in {"-", "+"} THEN Tail(s1) ELSE s1
      nInt == LeadingCount(s2, Digits)
      s3 == Drop(s2, nInt)
      nFrac == IF s3 # <<>> /\ s3[1] = "." THEN LeadingCount(Tail(s3), Digits)
               ELSE 0
      whole == DigitsValue(SubSeq(s2, 1, nInt))
      part == DigitsValue(SubSeq(s3, 2, nFrac + 1))
      value == RDiv(RInt(whole * Pow10(nFrac) + part), RInt(Pow10(nFrac)))
  IN IF StartsWith(s2, <<"I", "n", "f", "i", "n", "i", "t", "y">>)
       THEN (IF neg THEN CNegInf ELSE CPosInf)
     ELSE IF nInt = 0 /\ nFrac = 0 THEN CNaN
     ELSE CNum(IF neg THEN RNeg(value) ELSE value)

RECURSIVE DigitsOf(_)
DigitsOf(n) ==
  IF n < 10 THEN <<DigitChars[n + 1]>>
  ELSE Append(DigitsOf(n \div 10), DigitChars[(n % 10) + 1])

MaxFractionDigits == 4

\* Number.prototype.toString for the clamped elevations, which are positive
\* and have at most MaxFractionDigits decimals: the shortest decimal
NumberToString(r) ==
  LET Scaled(k) == RMul(r, RInt(Pow10(k)))
      IsWhole(k) == REq(RInt(RFloor(Scaled(k))), Scaled(k))
      k == CHOOSE j \in 0..MaxFractionDigits :
             /\ IsWhole(j)
             /\ \A h \in 0..(j - 1) : ~ IsWhole(h)
      all == DigitsOf(RFloor(Scaled(k)))
  IN IF k = 0 THEN all
     ELSE SubSeq(all, 1, Len(all) - k) \o <<".">>
            \o SubSeq(all, Len(all) - k + 1, Len(all))

clampElevationLowOnly(val) ==
  IF val.k = "nan" THEN CNaN
  ELSE IF val.k = "inf" THEN CPosInf
  ELSE IF val.k = "ninf" THEN CNum(RInt(ABS_MIN_ELEVATION))
  ELSE CNum(RMax(RInt(ABS_MIN_ELEVATION), val.v))

\* Overlay lines 313-315: Math.max(4304, Math.min(4405, val))
clampElevation(val) ==
  IF val.k = "nan" THEN CNaN
  ELSE IF val.k = "inf" THEN CNum(RInt(ABS_MAX_ELEVATION))
  ELSE IF val.k = "ninf" THEN CNum(RInt(ABS_MIN_ELEVATION))
  ELSE IF RLt(RInt(ABS_MAX_ELEVATION), val.v)
    THEN CNum(RInt(ABS_MAX_ELEVATION))
  ELSE CNum(RMax(RInt(ABS_MIN_ELEVATION), val.v))

(***************************************************************************)
(* State                                                                   *)
(***************************************************************************)
VARIABLES
  pc,             \* position in the running function
  rawData,        \* processRawDemData: the raw raster (row-major)
  origWidth, origHeight, targetMaxSize,
  scale, newWidth, newHeight,
  newData,        \* the Float32Array being filled
  minVal, maxVal, \* running extrema of the valid samples
  x, y,           \* first-pass loop counters
  i,              \* second-pass loop counter
  reads,          \* history: <<safeX, safeY, srcIdx, val>> of each visited cell
  result,         \* the returned object
  absoluteElevation, substanceMassTons,   \* calculateHydraulics: arguments
  surfaceAreaM2, volumeM3, concentration,
  divisor,        \* history: whether a division ran, and its divisor
  estimatedYear,
  stats,          \* the returned SimulationStats
  year,           \* getElevationFromYear: argument
  targetAreaM2,
  low, high,      \* the bracket, in units of 2^-40
  iter,           \* the loop counter i of the search
  mid, midArea,   \* the midpoint and its area in the latest iteration
  prevLow, prevHigh,  \* history: the bracket one iteration earlier
  exit,           \* history: which return statement was taken
  elevation,      \* the returned elevation, in units of 2^-40
  height, max,    \* getColorByHeight: arguments
  t,              \* the normalized height
  band,           \* history: the branch of the gradient that was taken
  color,          \* the returned triple
  vertex,         \* TerrainMesh: index of the vertex being coloured
  config, heightData, minElevation, waterLevel,   \* App state
  manualInput, yearInput,   \* Overlay state: the text of the two inputs
  handled,        \* history: the latest Overlay handler and what it parsed
  isAutoRising, terrainVersion,   \* App state
  inFlight,       \* the calls of loadTerrainFromBlob and the image uploads
                  \* that are waiting for a promise or an onload event
  lastEvent,      \* history: the handler that ran last, the App state
                  \* before it and what it returned
  noiseTable,     \* generateTerrainData: the values of noise(x, z)
  generated       \* history: the config and the grid of every call

demVars == <<rawData, origWidth, origHeight, targetMaxSize, scale, newWidth,
             newHeight, newData, minVal, maxVal, x, y, i, reads, result>>

hydVars == <<absoluteElevation, substanceMassTons, surfaceAreaM2, volumeM3,
             concentration, divisor, estimatedYear, stats>>

srchVars == <<year, targetAreaM2, low, high, iter, mid, midArea, prevLow,
              prevHigh, exit, elevation>>

colVars == <<height, max, t, band, color, vertex>>

liveVars == <<isAutoRising, terrainVersion, inFlight, lastEvent>>

appVars == <<config, heightData, minElevation, waterLevel, manualInput,
             yearInput, handled, liveVars>>

genVars == <<noiseTable, generated>>

vars == <<pc, demVars, hydVars, srchVars, colVars, appVars, genVars>>

nonDemVars == <<hydVars, srchVars, colVars, appVars, genVars>>
nonHydVars == <<demVars, srchVars, colVars, appVars, genVars>>
nonSrchVars == <<demVars, hydVars, colVars, appVars, genVars>>
nonColVars == <<demVars, hydVars, srchVars, appVars, genVars>>
nonGenVars == <<demVars, hydVars, srchVars, colVars, appVars>>

Undefined == [defined |-> FALSE, v |-> 0]
Defined(n) == [defined |-> TRUE, v |-> n]

\* the stats object before any computation (App, initial state)
InitialStats == [waterLevel |-> RInt(0), surfaceArea |-> RInt(0),
                 volume |-> RInt(0), concentration |-> RInt(0),
                 estimatedYear |-> Undefined]

HydIdle ==
  /\ absoluteElevation = RInt(0)
  /\ substanceMassTons = RInt(0)
  /\ surfaceAreaM2 = RInt(0)
  /\ volumeM3 = RInt(0)
  /\ concentration = RInt(0)
  /\ divisor = [used |-> FALSE, by |-> RInt(0)]
  /\ estimatedYear = Undefined
  /\ stats = InitialStats

NoResult == [data |-> <<>>, width |-> NaN, height |-> NaN,
             minHeight |-> NaN, maxHeight |-> NaN]

Shapes == {s \in (0..MaxDim) \X (0..MaxDim) : s[1] * s[2] <= MaxCells}

DemIdle ==
  /\ rawData = <<>>
  /\ origWidth = 0
  /\ origHeight = 0
  /\ targetMaxSize = 0
  /\ scale = [num |-> 1, den |-> 1]
  /\ newWidth = Num(0)
  /\ newHeight = Num(0)
  /\ newData = <<>>
  /\ minVal = PosInf
  /\ maxVal = NegInf
  /\ x = 0
  /\ y = 0
  /\ i = 0
  /\ reads = <<>>
  /\ result = NoResult

SearchIdle ==
  /\ year = RInt(0)
  /\ targetAreaM2 = RInt(0)
  /\ low = <<>>
  /\ high = <<>>
  /\ iter = 0
  /\ mid = <<>>
  /\ midArea = RInt(0)
  /\ prevLow = <<>>
  /\ prevHigh = <<>>
  /\ exit = "none"
  /\ elevation = <<>>

ColorIdle ==
  /\ height = 0
  /\ max = 0
  /\ t = CNum(RInt(0))
  /\ band = "none"
  /\ color = <<>>
  /\ vertex = 0

GenIdle ==
  /\ noiseTable = <<>>
  /\ generated = <<>>

NoEvent == [kind |-> "none", before |-> <<>>, returned |-> "none",
            started |-> <<>>, alone |-> TRUE]

\* lines 20 and 26, and nothing started
LiveIdle ==
  /\ isAutoRising = FALSE
  /\ terrainVersion = 0
  /\ inFlight = <<>>
  /\ lastEvent = NoEvent

\* the App and Overlay state after construction
AppIdle ==
  /\ LiveIdle
  /\ config = DEFAULT_CONFIG
  /\ heightData = <<>>
  /\ minElevation = RInt(0)
  /\ waterLevel = RInt(0)
  /\ manualInput = <<>>
  /\ yearInput = <<>>
  /\ handled = NothingHandled

InitDem ==
  /\ GenIdle
  /\ pc = "dem_start"
  /\ HydIdle
  /\ SearchIdle
  /\ ColorIdle
  /\ AppIdle
  /\ \E s \in Shapes :
       /\ origWidth = s[1]
       /\ origHeight = s[2]
       /\ rawData \in [1..(s[1] * s[2]) -> Samples]
  /\ targetMaxSize \in (0 - MaxNegTarget)..MaxTarget
  /\ scale = [num |-> 1, den |-> 1]
  /\ newWidth = Num(0)
  /\ newHeight = Num(0)
  /\ newData = <<>>
  /\ minVal = PosInf
  /\ maxVal = NegInf
  /\ x = 0
  /\ y = 0
  /\ i = 0
  /\ reads = <<>>
  /\ result = NoResult

(***************************************************************************)
(* processRawDemData, one action per step of its control flow              *)
(***************************************************************************)
\* lines 349-361: scale, output dimensions, allocation
DemStart ==
  /\ pc = "dem_start"
  /\ LET sc == Scale(origWidth, origHeight, targetMaxSize)
         nw == FloorDivScale(origWidth, sc)
         nh == FloorDivScale(origHeight, sc)
         len == ArrayLength(Mul(nw, nh))
     IN /\ scale' = sc
        /\ newWidth' = nw
        /\ newHeight' = nh
        /\ IF len < 0
             THEN /\ pc' = "dem_threw"    \* RangeError: invalid array length
                  /\ newData' = <<>>
             ELSE /\ pc' = "dem_pass1"
                  /\ newData' = [j \in 1..len |-> Num(0)]
  /\ minVal' = PosInf
  /\ maxVal' = NegInf
  /\ x' = 0
  /\ y' = 0
  /\ UNCHANGED <<rawData, origWidth, origHeight, targetMaxSize, i, reads,
                 result>>
  /\ UNCHANGED nonDemVars

\* lines 365-386: the body of the inner loop for output cell (x, y)
Pass1Cell ==
  /\ pc = "dem_pass1"
  /\ Lt(Num(y), newHeight)
  /\ Lt(Num(x), newWidth)
  /\ LET srcX == FloorMulScale(x, scale)
         srcY == FloorMulScale(y, scale)
         safeX == SafeCoord(srcX, origWidth)
         safeY == SafeCoord(srcY, origHeight)
         srcIdx == SrcIdx(safeX, safeY, origWidth, origHeight)
         val == RawAt(rawData, srcIdx)
         nodata == IsNoData(val)
         stored == IF nodata THEN NaN ELSE Fround(val)
     IN /\ minVal' = IF ~ nodata /\ Lt(val, minVal) THEN val ELSE minVal
        /\ maxVal' = IF ~ nodata /\ Gt(val, maxVal) THEN val ELSE maxVal
        /\ newData' = [newData EXCEPT ![y * newWidth.v + x + 1] = stored]
        /\ reads' = Append(reads, <<safeX, safeY, srcIdx, val>>)
  /\ x' = x + 1
  /\ UNCHANGED <<pc, rawData, origWidth, origHeight, targetMaxSize, scale,
                 newWidth, newHeight, y, i, result>>
  /\ UNCHANGED nonDemVars

\* line 365 exit, line 364 increment: the row is finished
Pass1NextRow ==
  /\ pc = "dem_pass1"
  /\ Lt(Num(y), newHeight)
  /\ ~ Lt(Num(x), newWidth)
  /\ y' = y + 1
  /\ x' = 0
  /\ UNCHANGED <<pc, rawData, origWidth, origHeight, targetMaxSize, scale,
                 newWidth, newHeight, newData, minVal, maxVal, i, reads,
                 result>>
  /\ UNCHANGED nonDemVars

\* line 364 exit and line 389: the fallback range when nothing was valid
Pass1Exit ==
  /\ pc = "dem_pass1"
  /\ ~ Lt(Num(y), newHeight)
  /\ minVal' = FallbackRange(minVal, maxVal)[1]
  /\ maxVal' = FallbackRange(minVal, maxVal)[2]
  /\ i' = 0
  /\ pc' = "dem_pass2"
  /\ UNCHANGED <<rawData, origWidth, origHeight, targetMaxSize, scale,
                 newWidth, newHeight, newData, x, y, reads, result>>
  /\ UNCHANGED nonDemVars

\* lines 392-398: normalise one cell
Pass2Cell ==
  /\ pc = "dem_pass2"
  /\ i < Len(newData)
  /\ newData' = [newData EXCEPT ![i + 1] = Normalize(newData[i + 1], minVal)]
  /\ i' = i + 1
  /\ UNCHANGED <<pc, rawData, origWidth, origHeight, targetMaxSize, scale,
                 newWidth, newHeight, minVal, maxVal, x, y, reads, result>>
  /\ UNCHANGED nonDemVars

\* lines 400-406
DemReturn ==
  /\ pc = "dem_pass2"
  /\ ~ (i < Len(newData))
  /\ result' = [data |-> newData, width |-> newWidth, height |-> newHeight,
                minHeight |-> minVal, maxHeight |-> Sub(maxVal, minVal)]
  /\ pc' = "dem_done"
  /\ UNCHANGED <<rawData, origWidth, origHeight, targetMaxSize, scale,
                 newWidth, newHeight, newData, minVal, maxVal, x, y, i, reads>>
  /\ UNCHANGED nonDemVars

NextDem ==
  \/ DemStart
  \/ Pass1Cell
  \/ Pass1NextRow
  \/ Pass1Exit
  \/ Pass2Cell
  \/ DemReturn

SpecDem == InitDem /\ [][NextDem]_vars

\* processRawDemData on small Float32Array rasters
FineShapes == {s \in (0..MaxFineCells) \X (0..MaxFineCells) :
                 s[1] * s[2] <= MaxFineCells}

InitDemFine ==
  /\ GenIdle
  /\ pc = "dem_start"
  /\ HydIdle
  /\ SearchIdle
  /\ ColorIdle
  /\ AppIdle
  /\ \E s \in FineShapes :
       /\ origWidth = s[1]
       /\ origHeight = s[2]
       /\ rawData \in [1..(s[1] * s[2]) -> FineSamples]
  /\ targetMaxSize \in (0 - MaxNegTarget)..MaxTarget
  /\ scale = [num |-> 1, den |-> 1]
  /\ newWidth = Num(0)
  /\ newHeight = Num(0)
  /\ newData = <<>>
  /\ minVal = PosInf
  /\ maxVal = NegInf
  /\ x = 0
  /\ y = 0
  /\ i = 0
  /\ reads = <<>>
  /\ result = NoResult

SpecDemFine == InitDemFine /\ [][NextDem]_vars

(***************************************************************************)
(* calculateHydraulics, one action per numbered step of the function       *)
(***************************************************************************)
TenthsNearLimit ==
  {RDiv(RInt(LOWER_LIMIT * 10 + j), RInt(10)) : j \in (0 - 9)..9}

FarElevations == {RInt(-100000), RInt(0), RInt(1000), RInt(100000)}

\* LOWER_LIMIT + 10^-12: a level whose volume is positive but below
\* the 0.001 floor
JustAboveLimit == RAdd(RInt(LOWER_LIMIT), RDecimal(1, <<1>>, 3))

HydElevations ==
  {RInt(LOWER_LIMIT + k) : k \in (0 - MaxBelow)..MaxAbove}
    \cup TenthsNearLimit \cup FarElevations \cup {JustAboveLimit}

HydMasses == {RInt(0), RInt(1000), RInt(2500)}

InitHyd ==
  /\ GenIdle
  /\ pc = "hyd_start"
  /\ DemIdle
  /\ SearchIdle
  /\ ColorIdle
  /\ AppIdle
  /\ absoluteElevation \in HydElevations
  /\ substanceMassTons \in HydMasses
  /\ surfaceAreaM2 = RInt(0)
  /\ volumeM3 = RInt(0)
  /\ concentration = RInt(0)
  /\ divisor = [used |-> FALSE, by |-> RInt(0)]
  /\ estimatedYear = Undefined
  /\ stats = InitialStats

\* lines 516-517
CalcArea ==
  /\ pc = "hyd_start"
  /\ surfaceAreaM2' = calculatePolynomialArea(absoluteElevation)
  /\ pc' = "hyd_volume"
  /\ UNCHANGED <<absoluteElevation, substanceMassTons, volumeM3,
                 concentration, divisor, estimatedYear, stats>>
  /\ UNCHANGED nonHydVars

\* lines 519-529
CalcVolume ==
  /\ pc = "hyd_volume"
  /\ volumeM3' = VolumeAt(absoluteElevation)
  /\ pc' = "hyd_concentration"
  /\ UNCHANGED <<absoluteElevation, substanceMassTons, surfaceAreaM2,
                 concentration, divisor, estimatedYear, stats>>
  /\ UNCHANGED nonHydVars

\* lines 531-538
CalcConcentration ==
  /\ pc = "hyd_concentration"
  /\ LET c == ConcentrationOf(volumeM3, substanceMassTons)
     IN /\ concentration' = c.value
        /\ divisor' = [used |-> c.divided, by |-> volumeM3]
  /\ pc' = "hyd_year"
  /\ UNCHANGED <<absoluteElevation, substanceMassTons, surfaceAreaM2,
                 volumeM3, estimatedYear, stats>>
  /\ UNCHANGED nonHydVars

\* lines 540-542
CalcYear ==
  /\ pc = "hyd_year"
  /\ estimatedYear' = Defined(EstimatedYearOf(surfaceAreaM2))
  /\ pc' = "hyd_return"
  /\ UNCHANGED <<absoluteElevation, substanceMassTons, surfaceAreaM2,
                 volumeM3, concentration, divisor, stats>>
  /\ UNCHANGED nonHydVars

\* lines 544-550
HydReturn ==
  /\ pc = "hyd_return"
  /\ stats' = [waterLevel |-> absoluteElevation,
               surfaceArea |-> surfaceAreaM2,
               volume |-> volumeM3,
               concentration |-> concentration,
               estimatedYear |-> estimatedYear]
  /\ pc' = "hyd_done"
  /\ UNCHANGED <<absoluteElevation, substanceMassTons, surfaceAreaM2,
                 volumeM3, concentration, divisor, estimatedYear>>
  /\ UNCHANGED nonHydVars

NextHyd ==
  \/ CalcArea
  \/ CalcVolume
  \/ CalcConcentration
  \/ CalcYear
  \/ HydReturn

SpecHyd == InitHyd /\ [][NextHyd]_vars

(***************************************************************************)
(* getElevationFromYear, one action per loop iteration                     *)
(***************************************************************************)
\* 1876.882197: the linear model gives 0.289 m2, inside (0, 1]
YearJustPositive == RDecimal(1, <<1876, 8821, 9700>>, 2)

SearchYears ==
  {RInt(1800 + 25 * k) : k \in 0..MaxYearSteps}
    \cup {YearJustPositive, RInt(1885), RInt(2260)}

InitSearch ==
  /\ GenIdle
  /\ pc = "srch_start"
  /\ DemIdle
  /\ HydIdle
  /\ ColorIdle
  /\ AppIdle
  /\ year \in SearchYears
  /\ targetAreaM2 = RInt(0)
  /\ low = <<>>
  /\ high = <<>>
  /\ iter = 0
  /\ mid = <<>>
  /\ midArea = RInt(0)
  /\ prevLow = <<>>
  /\ prevHigh = <<>>
  /\ exit = "none"
  /\ elevation = <<>>

\* lines 473-486
SearchStart ==
  /\ pc = "srch_start"
  /\ targetAreaM2' = TargetAreaM2(year)
  /\ low' = ElevUnits(SEARCH_LOW)
  /\ high' = ElevUnits(SEARCH_HIGH)
  /\ IF ShortCircuit(targetAreaM2')
       THEN /\ elevation' = low'
            /\ exit' = "short"
            /\ pc' = "srch_done"
       ELSE /\ pc' = "srch_loop"
            /\ UNCHANGED <<elevation, exit>>
  /\ UNCHANGED <<year, iter, mid, midArea, prevLow, prevHigh>>
  /\ UNCHANGED nonSrchVars

\* lines 488-502: one pass through the loop body
SearchIterate ==
  /\ pc = "srch_loop"
  /\ iter < MaxIterations
  /\ mid' = Midpoint(low, high)
  /\ midArea' = calculatePolynomialArea(ElevValue(mid'))
  /\ IF WithinEpsilon(midArea', targetAreaM2)
       THEN /\ elevation' = mid'
            /\ exit' = "early"
            /\ pc' = "srch_done"
            /\ UNCHANGED <<low, high, iter, prevLow, prevHigh>>
       ELSE /\ low' = BracketUpdate(low, high, mid', midArea',
                                    targetAreaM2).low
            /\ high' = BracketUpdate(low, high, mid', midArea',
                                     targetAreaM2).high
            /\ prevLow' = low
            /\ prevHigh' = high
            /\ iter' = iter + 1
            /\ UNCHANGED <<elevation, exit, pc>>
  /\ UNCHANGED <<year, targetAreaM2>>
  /\ UNCHANGED nonSrchVars

\* line 504: the loop ran out
SearchExhausted ==
  /\ pc = "srch_loop"
  /\ ~ (iter < MaxIterations)
  /\ elevation' = Midpoint(low, high)
  /\ exit' = "exhausted"
  /\ pc' = "srch_done"
  /\ UNCHANGED <<year, targetAreaM2, low, high, iter, mid, midArea, prevLow,
                 prevHigh>>
  /\ UNCHANGED nonSrchVars

NextSearch ==
  \/ SearchStart
  \/ SearchIterate
  \/ SearchExhausted

SpecSearch == InitSearch /\ [][NextSearch]_vars

(***************************************************************************)
(* getColorByHeight, called directly and by TerrainMesh for every vertex   *)
(***************************************************************************)
OverlayIdle ==
  /\ LiveIdle
  /\ minElevation = RInt(0)
  /\ waterLevel = RInt(0)
  /\ manualInput = <<>>
  /\ yearInput = <<>>
  /\ handled = NothingHandled

\* heights a terrain can hold after processRawDemData or generateTerrainData
MeshHeights == {0, 1, 5, 10}

\* the props TerrainMesh receives: a processed raster (lowest cell 0,
\* maxHeight the largest cell), a raster without valid cells (all 0,
\* maxHeight 10) or the default terrain (maxHeight 40)
MeshProps ==
  LET grids == UNION {[1..n -> MeshHeights] : n \in 1..MaxVertices}
      Cfg(n, m) == [width |-> n, depth |-> 1, cellSize |-> 1, maxHeight |-> m]
  IN {[data |-> g, config |-> Cfg(Len(g), MaxH(g))] :
        g \in {h \in grids : \E k \in 1..Len(h) : h[k] = 0}}
     \cup {[data |-> g, config |-> Cfg(Len(g), 10)] :
             g \in {h \in grids : \A k \in 1..Len(h) : h[k] = 0}}
     \cup {[data |-> g, config |-> Cfg(Len(g), 40)] : g \in grids}

InitColorCall ==
  /\ pc = "col_call"
  /\ height \in (-2)..MaxHeightArg
  /\ max \in (-1)..MaxMaxArg
  /\ config = DEFAULT_CONFIG
  /\ heightData = <<>>

InitMesh ==
  /\ pc = "mesh_start"
  /\ height = 0
  /\ max = 0
  /\ \E p \in MeshProps : heightData = p.data /\ config = p.config

InitColor ==
  /\ GenIdle
  /\ DemIdle
  /\ HydIdle
  /\ SearchIdle
  /\ OverlayIdle
  /\ t = CNum(RInt(0))
  /\ band = "none"
  /\ color = <<>>
  /\ vertex = 0
  /\ InitColorCall \/ InitMesh

\* lines 556-593, called with any two numbers
GetColorByHeightCall ==
  /\ pc = "col_call"
  /\ \E res \in {getColorByHeight(height, max)} :
       /\ t' = res.t
       /\ band' = res.band
       /\ color' = res.color
  /\ pc' = "col_done"
  /\ UNCHANGED <<height, max, vertex>>
  /\ UNCHANGED nonColVars

\* TerrainMesh lines 66-72
MeshStart ==
  /\ pc = "mesh_start"
  /\ max' = ColorMax(heightData, config)
  /\ vertex' = 0
  /\ pc' = "mesh_loop"
  /\ UNCHANGED <<height, t, band, color>>
  /\ UNCHANGED nonColVars

\* TerrainMesh lines 74-84, one vertex
MeshColorVertex ==
  /\ pc = "mesh_loop"
  /\ vertex < config.width * config.depth
  /\ height' = HeightAt(heightData, vertex + 1)
  /\ \E res \in {getColorByHeight(height', max)} :
       /\ t' = res.t
       /\ band' = res.band
       /\ color' = res.color
  /\ vertex' = vertex + 1
  /\ UNCHANGED <<pc, max>>
  /\ UNCHANGED nonColVars

\* TerrainMesh lines 86-89
MeshDone ==
  /\ pc = "mesh_loop"
  /\ ~ (vertex < config.width * config.depth)
  /\ pc' = "mesh_done"
  /\ UNCHANGED <<colVars>>
  /\ UNCHANGED nonColVars

NextColor ==
  \/ GetColorByHeightCall
  \/ MeshStart
  \/ MeshColorVertex
  \/ MeshDone

SpecColor == InitColor /\ [][NextColor]_vars

(***************************************************************************)
(* generateTerrainData, called several times                               *)
(***************************************************************************)
GenCells == (0..MaxGenDim) \X (0..MaxGenDim)

NoiseTables ==
  {[p \in GenCells |-> -NoiseBound],
   [p \in GenCells |-> 0],
   [p \in GenCells |-> NoiseBound],
   [p \in GenCells |-> ((5 * p[1] + 3 * p[2]) % 7) * 5 - 15]}

GenConfigs ==
  [width : 0..MaxGenDim, depth : 0..MaxGenDim, cellSize : {1},
   maxHeight : {40}]

InitGen ==
  /\ pc = "gen_call"
  /\ DemIdle
  /\ HydIdle
  /\ SearchIdle
  /\ ColorIdle
  /\ AppIdle
  /\ noiseTable \in NoiseTables
  /\ generated = <<>>

\* lines 277-301, one call
GenerateTerrainData ==
  /\ pc = "gen_call"
  /\ Len(generated) < MaxCalls
  /\ \E cfg \in GenConfigs :
       generated' = Append(generated,
                           [config |-> cfg,
                            data |-> generateTerrainData(cfg, noiseTable)])
  /\ UNCHANGED <<pc, noiseTable>>
  /\ UNCHANGED nonGenVars

NextGen == GenerateTerrainData

SpecGen == InitGen /\ [][NextGen]_vars

(***************************************************************************)
(* Overlay: the typed-elevation and typed-year inputs.  handleYearSet runs *)
(* the search of getElevationFromYear step by step.                        *)
(***************************************************************************)
ManualTexts ==
  {<<>>,
   <<"a", "b", "c">>,
   <<"4", "3", "5", "0">>,
   <<"4", "3", "5", "0", ".", "5">>,
   <<"4", "3", "0", "4">>,
   <<"4", "4", "0", "5">>,
   <<"4", "4", "0", "6">>,
   <<"4", "3", "0", "3", ".", "9", "9">>,
   <<"-", "5">>,
   <<"0">>,
   <<" ", "4", "4", "0", "0">>,
   <<"4", "3", "5", "0", ".", "2", "5", "m">>,
   <<"I", "n", "f", "i", "n", "i", "t", "y">>,
   <<"-", "I", "n", "f", "i", "n", "i", "t", "y">>,
   <<".", "5">>,
   <<"-">>,
   <<"9", "9", "9", "9">>}

YearTexts ==
  {<<>>,
   <<"a", "b", "c">>,
   <<"1", "8", "0", "0">>,
   <<"2", "0", "0", "0">>,
   <<"2", "2", "6", "0">>}

\* minElevation is 0 or the lowest cell of an uploaded raster
MinElevations ==
  {RInt(0), RDecimal(1, <<4303, 5000>>, 1), RInt(4500), RInt(-50)}

\* waterLevel is 0 or whatever the slider left
WaterLevels == {RInt(0), RInt(7)}

InitOverlay ==
  /\ pc = "ovl_idle"
  /\ DemIdle
  /\ HydIdle
  /\ SearchIdle
  /\ ColorIdle
  /\ GenIdle
  /\ LiveIdle
  /\ config = DEFAULT_CONFIG
  /\ heightData = <<>>
  /\ minElevation \in MinElevations
  /\ waterLevel \in WaterLevels
  /\ manualInput = <<>>
  /\ yearInput = <<>>
  /\ handled = NothingHandled

ovlRest == <<demVars, hydVars, colVars, genVars, config, heightData,
             minElevation, liveVars>>

\* the user types into the elevation input
TypeManual ==
  /\ pc = "ovl_idle"
  /\ manualInput' \in ManualTexts
  /\ pc' = "ovl_manual_typed"
  /\ UNCHANGED <<waterLevel, yearInput, handled, srchVars, ovlRest>>

\* the user types into the year input
TypeYear ==
  /\ pc = "ovl_idle"
  /\ yearInput' \in YearTexts
  /\ pc' = "ovl_year_typed"
  /\ UNCHANGED <<waterLevel, manualInput, handled, srchVars, ovlRest>>

\* Overlay lines 317-324
HandleManualSet ==
  /\ pc = "ovl_manual_typed"
  /\ handled' = [handler |-> "manual", parsed |-> ParseFloat(manualInput),
                 before |-> waterLevel]
  /\ IF handled'.parsed.k # "nan"
       THEN /\ waterLevel'
                 = RSub(clampElevation(handled'.parsed).v, minElevation)
            /\ manualInput'
                 = NumberToString(clampElevation(handled'.parsed).v)
       ELSE UNCHANGED <<waterLevel, manualInput>>
  /\ pc' = "ovl_done"
  /\ UNCHANGED <<yearInput, srchVars, ovlRest>>

\* Overlay lines 326-329: parse, then call getElevationFromYear
HandleYearSet ==
  /\ pc = "ovl_year_typed"
  /\ handled' = [handler |-> "year", parsed |-> ParseFloat(yearInput),
                 before |-> waterLevel]
  /\ IF handled'.parsed.k = "num"
       THEN year' = handled'.parsed.v /\ pc' = "srch_start"
       ELSE UNCHANGED year /\ pc' = "ovl_done"
  /\ UNCHANGED <<targetAreaM2, low, high, iter, mid, midArea, prevLow,
                 prevHigh, exit, elevation>>
  /\ UNCHANGED <<waterLevel, manualInput, yearInput, ovlRest>>

\* Overlay lines 330-331, after the search has returned
HandleYearSetReturn ==
  /\ pc = "srch_done"
  /\ handled.handler = "year"
  /\ waterLevel'
       = RSub(clampElevation(CNum(ElevValue(elevation))).v, minElevation)
  /\ pc' = "ovl_done"
  /\ UNCHANGED <<manualInput, yearInput, handled, srchVars, ovlRest>>

NextOverlay ==
  \/ TypeManual
  \/ TypeYear
  \/ HandleManualSet
  \/ HandleYearSet
  \/ SearchStart
  \/ SearchIterate
  \/ SearchExhausted
  \/ HandleYearSetReturn

SpecOverlay == InitOverlay /\ [][NextOverlay]_vars

(***************************************************************************)
(* App: the animation loop of the rising water (lines 47-70).  The effect  *)
(* runs while isAutoRising holds: every animation frame applies the        *)
(* updater of lines 53-61 to waterLevel and requests the next frame; when  *)
(* the updater has cleared isAutoRising the cleanup of lines 67-69 cancels *)
(* the requested frame.  In this part waterLevel counts thousandths of a   *)
(* metre, so that maxHeight / 1000 is a whole number of them; the rounding *)
(* of the double addition is not represented.                              *)
(***************************************************************************)
\* the state the terrain handlers and the animation write
AppState ==
  [config |-> config, heightData |-> heightData,
   minElevation |-> minElevation, waterLevel |-> waterLevel,
   terrainVersion |-> terrainVersion, isAutoRising |-> isAutoRising]

\* a handler that ran in one piece
Event(kind, returned) ==
  [kind |-> kind, before |-> AppState, returned |-> returned,
   started |-> AppState, alone |-> TRUE]

\* thousandths of a metre in n metres
Thousandths(n) == n * 1000

\* line 55: config.maxHeight / 1000, in thousandths of a metre
RiseStep(maxHeight) == Thousandths(maxHeight) \div 1000

RiseLimitDoubled(maxHeight) == Thousandths(maxHeight) + Thousandths(maxHeight)

\* line 56: config.maxHeight + (config.maxHeight * 0.1), in thousandths
RiseLimit(maxHeight) ==
  Thousandths(maxHeight) + Thousandths(maxHeight) \div 10

\* line 252: () => setIsAutoRising(!isAutoRising)
ToggleAutoRise ==
  /\ pc = "app_idle"
  /\ isAutoRising' = ~ isAutoRising
  /\ lastEvent' = Event("toggle", "none")
  /\ UNCHANGED <<pc, config, heightData, minElevation, waterLevel,
                 manualInput, yearInput, handled, terrainVersion, inFlight>>
  /\ UNCHANGED <<demVars, hydVars, srchVars, colVars, genVars>>

\* line 62: the handle of the frame requested next; the handles count up,
\* and the model keeps their parity
RequestedFrame ==
  IF lastEvent.kind \in {"rose", "rise_stopped"}
    THEN 1 - lastEvent.returned
    ELSE 1

\* lines 52-63, one animation frame
AnimationFrame ==
  /\ pc = "app_idle"
  /\ isAutoRising
  /\ \E next \in {waterLevel + RiseStep(config.maxHeight)} :
       IF next >= RiseLimit(config.maxHeight)
         THEN /\ isAutoRising' = FALSE
              /\ UNCHANGED waterLevel
              /\ lastEvent' = Event("rise_stopped", RequestedFrame)
         ELSE /\ waterLevel' = next
              /\ UNCHANGED isAutoRising
              /\ lastEvent' = Event("rose", RequestedFrame)
  /\ UNCHANGED <<pc, config, heightData, minElevation, manualInput,
                 yearInput, handled, terrainVersion, inFlight>>
  /\ UNCHANGED <<demVars, hydVars, srchVars, colVars, genVars>>

\* rasters the App can have loaded and water levels it can hold with them:
\* a flat raster at 4500 m with the level 0 of the load and with a level
\* typed as 4400 m, a raster from 4302 m to 4306 m with levels typed as
\* 4304 m and 4306.3 m, and a raster from 4260 m to 4300 m
RiseStarts ==
  {[maxHeight |-> 0, minElevation |-> RInt(4500), waterLevel |-> 0],
   [maxHeight |-> 0, minElevation |-> RInt(4500),
    waterLevel |-> Thousandths(-100)],
   [maxHeight |-> 4, minElevation |-> RInt(4302), waterLevel |-> 0],
   [maxHeight |-> 4, minElevation |-> RInt(4302),
    waterLevel |-> Thousandths(2)],
   [maxHeight |-> 4, minElevation |-> RInt(4302), waterLevel |-> 4300],
   [maxHeight |-> 40, minElevation |-> RInt(4260), waterLevel |-> 0],
   [maxHeight |-> 40, minElevation |-> RInt(4260),
    waterLevel |-> Thousandths(44)]}

\* what loadTerrainFromBlob installs for a raster of one cell (flat) or of
\* two cells, the lowest and the highest
InitRise ==
  /\ pc = "app_idle"
  /\ DemIdle
  /\ HydIdle
  /\ SearchIdle
  /\ ColorIdle
  /\ GenIdle
  /\ isAutoRising = FALSE
  /\ terrainVersion = 1
  /\ inFlight = <<>>
  /\ lastEvent = NoEvent
  /\ \E s \in RiseStarts :
       /\ config = [width |-> IF s.maxHeight = 0 THEN 1 ELSE 2,
                    depth |-> 1, cellSize |-> 1,
                    maxHeight |-> s.maxHeight]
       /\ heightData = IF s.maxHeight = 0 THEN <<Num(0)>>
                       ELSE <<Num(0), Metres(s.maxHeight)>>
       /\ minElevation = s.minElevation
       /\ waterLevel = s.waterLevel
  /\ manualInput = <<>>
  /\ yearInput = <<>>
  /\ handled = NothingHandled

\* the toggle is pressed once, to turn the animation on
TurnOn ==
  /\ lastEvent = NoEvent
  /\ ToggleAutoRise

NextRise ==
  \/ TurnOn
  \/ AnimationFrame

\* requestAnimationFrame keeps delivering the requested frames
SpecRise == InitRise /\ [][NextRise]_vars /\ WF_vars(AnimationFrame)

(***************************************************************************)
(* App: the terrain handlers.  loadTerrainFromBlob (lines 73-128) waits    *)
(* for the GeoTIFF library, then runs processRawDemData and the setters in *)
(* one piece; handleUploadDEM (lines 153-210) calls it for .tif files and  *)
(* decodes any other file as an image, whose onload handler installs the   *)
(* terrain; handleResetTerrain (lines 212-219) runs in one piece.  While a *)
(* call waits, any other handler can run.  In this part waterLevel and     *)
(* minElevation are exact rationals in metres, as in the Overlay.          *)
(***************************************************************************)
\* line 87: the targetMaxSize the App passes
LOAD_MAX_SIZE == 256

\* lines 169 and 189
MAX_SIZE == 256
DEM_MAX_HEIGHT == 50

\* what a file is to the GeoTIFF library: fromBlob, getImage or readRasters
\* rejects it (unreadable), it has no first band (rasters[0] is undefined),
\* or it is a raster of whole metres, flat, sloping, or in degrees
Blobs ==
  {[kind |-> "unreadable", width |-> 0, height |-> 0, raster |-> <<>>,
    pixelScale |-> <<>>],
   [kind |-> "no_band", width |-> 1, height |-> 1, raster |-> <<>>,
    pixelScale |-> <<>>],
   [kind |-> "tiff", width |-> 1, height |-> 1,
    raster |-> <<Metres(4500)>>, pixelScale |-> <<>>],
   [kind |-> "tiff", width |-> 2, height |-> 1,
    raster |-> <<Metres(4302), Metres(4306)>>,
    pixelScale |-> <<RInt(30), RInt(30), RInt(0)>>],
   [kind |-> "tiff", width |-> 1, height |-> 2,
    raster |-> <<Metres(120), Metres(100)>>,
    pixelScale |-> <<RDiv(RInt(3), RInt(10000)),
                     RDiv(RInt(3), RInt(10000)), RInt(0)>>]}

\* what a file is to the browser's image decoder: none (onload never
\* fires), or an image of one grey level per row
Images ==
  {[decodes |-> FALSE, width |-> 0, height |-> 0],
   [decodes |-> TRUE, width |-> 2, height |-> 2],
   [decodes |-> TRUE, width |-> 512, height |-> 2],
   [decodes |-> TRUE, width |-> 2, height |-> 512],
   [decodes |-> TRUE, width |-> 1000, height |-> 1]}

\* the red, green and blue of pixel idx (from 0) of an image drawn w wide
GreyAt(idx, w) == ((idx \div w) * 85) % 256

\* Math.round of a / b for a >= 0, b > 0
RoundQuot(a, b) == (2 * a + b) \div (2 * b)

\* lines 170-183: the size the image is drawn at
DrawnSize(img) ==
  IF img.width > MAX_SIZE \/ img.height > MAX_SIZE
    THEN IF img.width > img.height
           THEN [w |-> MAX_SIZE,
                 h |-> RoundQuot(MAX_SIZE * img.height, img.width)]
           ELSE [w |-> RoundQuot(MAX_SIZE * img.width, img.height),
                 h |-> MAX_SIZE]
    ELSE [w |-> img.width, h |-> img.height]

ScaledImageDataSquare(w, h) ==
  [k \in 1..(w * w) |->
     RDiv(RInt(GreyAt(k - 1, w) * DEM_MAX_HEIGHT), RInt(255))]

\* lines 321-334 and 190-193: brightness / 255 * 50 of every pixel, the
\* weights 0.299, 0.587 and 0.114 adding up to 1 (float32 rounding is not
\* represented)
ScaledImageData(w, h) ==
  [k \in 1..(w * h) |->
     RDiv(RInt(GreyAt(k - 1, w) * DEM_MAX_HEIGHT), RInt(255))]

\* r * v for a rational r > 0
CTimes(r, v) == IF v.k = "num" THEN CNum(RMul(r, v.v)) ELSE v

\* lines 91-108
RealCellSize(blob, processed) ==
  IF Len(blob.pixelScale) >= 2
    THEN LET size == CTimes(blob.pixelScale[1],
                            Divide(blob.width, ArrayLength(processed.width)))
         IN IF /\ CLess(size, RDiv(RInt(1), RInt(10)))
               /\ Gt(processed.maxHeight, Metres(10))
              THEN CTimes(RInt(111000), size)
              ELSE size
    ELSE CNum(RInt(1))

\* the rasters of Blobs hold whole metres
WholeMetres(v) == v.v \div MetreUnits
MetresOf(v) == RDiv(RInt(v.v), RInt(MetreUnits))

\* lines 110-115
LoadedConfig(blob, processed) ==
  [width |-> ArrayLength(processed.width),
   depth |-> ArrayLength(processed.height),
   cellSize |-> RealCellSize(blob, processed),
   maxHeight |-> WholeMetres(processed.maxHeight)]

\* a call waiting for a promise or for an onload event
Waiting(stage, file) ==
  [stage |-> stage, file |-> file, started |-> AppState,
   disturbed |-> FALSE]

Without(seq, k) == SubSeq(seq, 1, k - 1) \o SubSeq(seq, k + 1, Len(seq))

\* another handler has written the state while these were waiting
Disturbed(seq) == [j \in 1..Len(seq) |-> [seq[j] EXCEPT !.disturbed = TRUE]]

\* the handler that ends call k
Ended(k, kind, returned) ==
  [kind |-> kind, before |-> AppState, returned |-> returned,
   started |-> inFlight[k].started, alone |-> ~ inFlight[k].disturbed]

CatchLeavesLevelAtZero(state) == [state EXCEPT !.waterLevel = RInt(0)]

\* lines 123-127: console.error, alert, return false
Catch(state) == state

appRest == <<hydVars, srchVars, colVars, genVars, manualInput, yearInput,
             handled, isAutoRising>>

InitApp ==
  /\ pc = "app_idle"
  /\ DemIdle
  /\ HydIdle
  /\ SearchIdle
  /\ ColorIdle
  /\ GenIdle
  /\ config = DEFAULT_CONFIG
  /\ heightData = <<>>
  /\ minElevation = RInt(0)
  /\ waterLevel = RInt(0)
  /\ manualInput = <<>>
  /\ yearInput = <<>>
  /\ handled = NothingHandled
  /\ isAutoRising = FALSE
  /\ terrainVersion = 0
  /\ inFlight = <<Waiting("fetch", <<>>)>>     \* lines 131-151, line 135
  /\ lastEvent = NoEvent

\* terrain changes that have happened or can still happen
Started == terrainVersion + Len(inFlight)

\* lines 136-139: /dem.tif is served, loadTerrainFromBlob is called
FetchFound ==
  /\ pc = "app_idle"
  /\ \E k \in 1..Len(inFlight), blob \in Blobs :
       /\ inFlight[k].stage = "fetch"
       /\ inFlight' = [inFlight EXCEPT ![k] = Waiting("parsing", blob)]
  /\ UNCHANGED <<pc, config, heightData, minElevation, waterLevel,
                 terrainVersion, lastEvent, demVars, appRest>>

\* lines 140-147: /dem.tif is not served, or fetch rejects
FetchMissing ==
  /\ pc = "app_idle"
  /\ \E k \in 1..Len(inFlight) :
       /\ inFlight[k].stage = "fetch"
       /\ inFlight' = Without(inFlight, k)
  /\ UNCHANGED <<pc, config, heightData, minElevation, waterLevel,
                 terrainVersion, lastEvent, demVars, appRest>>

\* lines 153-163 and 209: a .tif file goes to loadTerrainFromBlob, any
\* other file to the FileReader and the image decoder
HandleUploadDEM ==
  /\ pc = "app_idle"
  /\ Len(inFlight) < MaxInFlight
  /\ Started < MaxVersion
  /\ \/ \E blob \in Blobs :
          inFlight' = Append(inFlight, Waiting("parsing", blob))
     \/ \E img \in Images :
          inFlight' = Append(inFlight, Waiting("decoding", img))
  /\ UNCHANGED <<pc, config, heightData, minElevation, waterLevel,
                 terrainVersion, lastEvent, demVars, appRest>>

\* lines 75-87: the promises have resolved and processRawDemData is called
LoadProcess ==
  /\ pc = "app_idle"
  /\ \E k \in 1..Len(inFlight) :
       /\ inFlight[k].stage = "parsing"
       /\ inFlight[k].file.kind = "tiff"
       /\ inFlight' = [inFlight EXCEPT ![k].stage = "processing"]
       /\ rawData' = inFlight[k].file.raster
       /\ origWidth' = inFlight[k].file.width
       /\ origHeight' = inFlight[k].file.height
  /\ targetMaxSize' = LOAD_MAX_SIZE
  /\ pc' = "dem_start"
  /\ scale' = [num |-> 1, den |-> 1]
  /\ newWidth' = Num(0)
  /\ newHeight' = Num(0)
  /\ newData' = <<>>
  /\ minVal' = PosInf
  /\ maxVal' = NegInf
  /\ x' = 0
  /\ y' = 0
  /\ i' = 0
  /\ reads' = <<>>
  /\ result' = NoResult
  /\ UNCHANGED <<config, heightData, minElevation, waterLevel,
                 terrainVersion, lastEvent, appRest>>

\* lines 89-121, after processRawDemData has returned
LoadInstall ==
  /\ pc = "dem_done"
  /\ \E k \in 1..Len(inFlight) :
       /\ inFlight[k].stage = "processing"
       /\ config' = LoadedConfig(inFlight[k].file, result)
       /\ lastEvent' = Ended(k, "load", TRUE)
       /\ inFlight' = Disturbed(Without(inFlight, k))
  /\ heightData' = result.data
  /\ minElevation' = MetresOf(result.minHeight)
  /\ waterLevel' = RInt(0)
  /\ terrainVersion' = terrainVersion + 1
  /\ pc' = "app_idle"
  /\ UNCHANGED <<demVars, appRest>>

\* lines 123-127: a promise was rejected, or reading the first cell of a
\* missing band (line 375) or the allocation (line 358) threw
LoadCatch ==
  /\ \E k \in 1..Len(inFlight) :
       /\ \/ /\ pc = "app_idle"
             /\ inFlight[k].stage = "parsing"
             /\ inFlight[k].file.kind \in {"unreadable", "no_band"}
          \/ /\ pc = "dem_threw"
             /\ inFlight[k].stage = "processing"
       /\ lastEvent' = Ended(k, "load_failed", FALSE)
       /\ inFlight' = Without(inFlight, k)
  /\ \E after \in {Catch(AppState)} :
       /\ config' = after.config
       /\ heightData' = after.heightData
       /\ minElevation' = after.minElevation
       /\ waterLevel' = after.waterLevel
       /\ terrainVersion' = after.terrainVersion
  /\ pc' = "app_idle"
  /\ UNCHANGED <<demVars, appRest>>

\* lines 167-205: img.onload
ImageLoaded ==
  /\ pc = "app_idle"
  /\ \E k \in 1..Len(inFlight) :
       /\ inFlight[k].stage = "decoding"
       /\ inFlight[k].file.decodes
       /\ \E size \in {DrawnSize(inFlight[k].file)} :
            IF size.w = 0 \/ size.h = 0
              \* getImageData (line 318) throws for an empty rectangle
              THEN /\ lastEvent' = Ended(k, "image_threw", "none")
                   /\ inFlight' = Without(inFlight, k)
                   /\ UNCHANGED <<config, heightData, minElevation,
                                  waterLevel, terrainVersion>>
              ELSE /\ lastEvent' = Ended(k, "image", "none")
                   /\ inFlight' = Disturbed(Without(inFlight, k))
                   /\ config' = [width |-> size.w, depth |-> size.h,
                                 cellSize |-> 1,
                                 maxHeight |-> DEM_MAX_HEIGHT]
                   /\ heightData' = ScaledImageData(size.w, size.h)
                   /\ minElevation' = RInt(0)
                   /\ waterLevel' = RInt(0)
                   /\ terrainVersion' = terrainVersion + 1
  /\ UNCHANGED <<pc, demVars, appRest>>

\* the file is no image: neither onload handler runs
ImageFailed ==
  /\ pc = "app_idle"
  /\ \E k \in 1..Len(inFlight) :
       /\ inFlight[k].stage = "decoding"
       /\ ~ inFlight[k].file.decodes
       /\ lastEvent' = Ended(k, "image_failed", "none")
       /\ inFlight' = Without(inFlight, k)
  /\ UNCHANGED <<pc, config, heightData, minElevation, waterLevel,
                 terrainVersion, demVars, appRest>>

\* noise(x, z) over the grid of DEFAULT_CONFIG, values between -17 and 17
DefaultNoise ==
  [p \in (0..(DEFAULT_CONFIG.width - 1)) \X (0..(DEFAULT_CONFIG.depth - 1))
     |-> ((5 * p[1] + 3 * p[2]) % 7) * 5 - 15]

\* lines 212-219
HandleResetTerrain ==
  /\ pc = "app_idle"
  /\ Started < MaxVersion
  /\ lastEvent' = Event("reset", "none")
  /\ config' = DEFAULT_CONFIG
  /\ heightData' = generateTerrainData(DEFAULT_CONFIG, DefaultNoise)
  /\ minElevation' = RInt(0)
  /\ waterLevel' = RInt(0)
  /\ terrainVersion' = terrainVersion + 1
  /\ inFlight' = Disturbed(inFlight)
  /\ UNCHANGED <<pc, demVars, appRest>>

\* an elevation typed into the Overlay
TypedLevels == {4400}

\* Overlay line 321: setWaterLevel(clamped - minElevation)
SetWaterLevel ==
  /\ pc = "app_idle"
  /\ \E typed \in TypedLevels :
       /\ waterLevel' = RSub(clampElevation(CNum(RInt(typed))).v,
                             minElevation)
       /\ waterLevel' # waterLevel
  /\ lastEvent' = Event("level", "none")
  /\ inFlight' = Disturbed(inFlight)
  /\ UNCHANGED <<pc, config, heightData, minElevation, terrainVersion,
                 demVars, appRest>>

NextApp ==
  \/ FetchFound
  \/ FetchMissing
  \/ HandleUploadDEM
  \/ LoadProcess
  \/ DemStart
  \/ Pass1Cell
  \/ Pass1NextRow
  \/ Pass1Exit
  \/ Pass2Cell
  \/ DemReturn
  \/ LoadInstall
  \/ LoadCatch
  \/ ImageLoaded
  \/ ImageFailed
  \/ HandleResetTerrain
  \/ SetWaterLevel

SpecApp == InitApp /\ [][NextApp]_vars

(***************************************************************************)
(* Properties of processRawDemData                                         *)
(***************************************************************************)
DemDone == pc = "dem_done"

Cells == {result.data[k] : k \in 1..Len(result.data)}

\* the plain reading of "no-data": NaN, below -12000 or above 12000
ClaimNoData(val) == val.k = "nan" \/ (val.k = "num" /\ (val.v < -12000 * MetreUnits \/ val.v > 12000 * MetreUnits))

ReadVals == {reads[k][4] : k \in 1..Len(reads)}
ValidReadVals == {v \in ReadVals : ~ ClaimNoData(v)}

AllCellsNonNegative == \A c \in Cells : c.k = "num" /\ c.v >= 0

\* C1 as stated: the minimum of every returned grid is exactly 0.
C1_MinIsZeroAlways ==
  DemDone => (AllCellsNonNegative /\ \E c \in Cells : c = Num(0))

\* C1 (amended): every cell of the returned grid is a number >= 0, and
\* whenever the returned grid has at least one cell its minimum is exactly
\* 0, for all-valid, all-no-data and mixed samples alike.
C1_MinIsZero ==
  DemDone =>
    /\ AllCellsNonNegative
    /\ (Len(result.data) > 0 => \E c \in Cells : c = Num(0))

C1_Witness ==
  /\ DemDone
  /\ Len(result.data) >= 2
  /\ \E v \in ReadVals : ClaimNoData(v)
  /\ ValidReadVals # {}
  /\ result.minHeight # Num(0)
  /\ \E c \in Cells : c.v > 0

\* C2: when every sampled value is no-data the returned grid is all 0 with
\* minHeight = 0 and maxHeight = 10, and the call does not throw.
C2_AllNoDataFallback ==
  /\ pc # "dem_threw"
  /\ (DemDone /\ ValidReadVals = {}) =>
        /\ \A c \in Cells : c = Num(0)
        /\ result.minHeight = Num(0)
        /\ result.maxHeight = Metres(10)

C2_Witness ==
  /\ DemDone
  /\ ValidReadVals = {}
  /\ Len(reads) >= 2
  /\ NaN \in ReadVals
  /\ Metres(12001) \in ReadVals

NoDownsampling == MaxOf(origWidth, origHeight) <= targetMaxSize

\* C3: when max(origWidth, origHeight) <= targetMaxSize the output has the
\* input's dimensions and output cell (x, y) is read from source cell (x, y).
C3_NoDownsamplingIdentity ==
  NoDownsampling =>
    /\ \A k \in 1..Len(reads) :
          /\ reads[k][1] = Num((k - 1) % origWidth)
          /\ reads[k][2] = Num((k - 1) \div origWidth)
          /\ reads[k][3] = Num(k - 1)
    /\ DemDone =>
          /\ result.width = Num(origWidth)
          /\ result.height = Num(origHeight)
          /\ Len(reads) = origWidth * origHeight
          /\ Len(result.data) = origWidth * origHeight

C3_Witness ==
  /\ DemDone
  /\ NoDownsampling
  /\ origWidth >= 2
  /\ origHeight >= 2
  /\ targetMaxSize > MaxOf(origWidth, origHeight)
  /\ Len(reads) = origWidth * origHeight

\* C4: for origWidth, origHeight >= 1 every visited cell reads a source
\* index with 0 <= safeX <= origWidth-1 and 0 <= safeY <= origHeight-1, so
\* the raw raster is never indexed out of bounds.
C4_ReadsInBounds ==
  (origWidth >= 1 /\ origHeight >= 1) =>
    \A k \in 1..Len(reads) :
      /\ reads[k][1].k = "num"
      /\ reads[k][2].k = "num"
      /\ reads[k][3].k = "num"
      /\ 0 <= reads[k][1].v /\ reads[k][1].v <= origWidth - 1
      /\ 0 <= reads[k][2].v /\ reads[k][2].v <= origHeight - 1
      /\ 0 <= reads[k][3].v /\ reads[k][3].v < Len(rawData)

C4_Witness ==
  /\ origWidth = 2
  /\ origHeight = 3
  /\ targetMaxSize = 2
  /\ Len(reads) = 2
  /\ reads[2][2] = Num(1)
  /\ reads[2][3] = Num(2)

MinOfSet(S) == CHOOSE m \in S : \A n \in S : m.v <= n.v
MaxOfSet(S) == CHOOSE m \in S : \A n \in S : n.v <= m.v

\* C5: a sampled value is no-data exactly when it is NaN, < -12000 or
\* > 12000 (-12000 and 12000 are valid); a no-data cell never enters the
\* running min/max, is written as 0 in the returned grid, and no error
\* is raised.
C5_NoDataFilter ==
  /\ pc # "dem_threw"
  /\ pc = "dem_pass1" =>
        /\ \A k \in 1..Len(reads) :
              newData[k] = IF ClaimNoData(reads[k][4]) THEN NaN
                           ELSE reads[k][4]
        /\ minVal = IF ValidReadVals = {} THEN PosInf
                    ELSE MinOfSet(ValidReadVals)
        /\ maxVal = IF ValidReadVals = {} THEN NegInf
                    ELSE MaxOfSet(ValidReadVals)
  /\ DemDone =>
        \A k \in 1..Len(reads) :
          ClaimNoData(reads[k][4]) => result.data[k] = Num(0)

C5_Witness ==
  /\ DemDone
  /\ ReadVals = Samples
  /\ result.minHeight = Metres(-12000)
  /\ result.maxHeight = Metres(24000)

Downsampling == MaxOf(origWidth, origHeight) > targetMaxSize

\* floor(n / scale) stated from its definition: the integer f with
\* f * maxDim <= n * targetMaxSize < (f + 1) * maxDim when downsampling
\* applies (maxDim > 0), and n itself when scale = 1
IsFloorOfScaled(f, n) ==
  IF Downsampling
    THEN /\ f.k = "num"
         /\ f.v * MaxOf(origWidth, origHeight) <= n * targetMaxSize
         /\ n * targetMaxSize < (f.v + 1) * MaxOf(origWidth, origHeight)
    ELSE f = Num(n)

C6_Body ==
  /\ result.width.k = "num"
  /\ result.height.k = "num"
  /\ Len(result.data) = result.width.v * result.height.v
  /\ IsFloorOfScaled(result.width, origWidth)
  /\ IsFloorOfScaled(result.height, origHeight)
  /\ Downsampling =>
        /\ result.width.v <= MaxOf(targetMaxSize, 0)
        /\ result.height.v <= MaxOf(targetMaxSize, 0)

\* C6 as stated: for every input the grid length is width * height with
\* width = floor(origWidth/scale), height = floor(origHeight/scale).
C6_DimensionsAlways == DemDone => C6_Body

EmptyRasterNegativeTarget ==
  origWidth = 0 /\ origHeight = 0 /\ targetMaxSize < 0

\* C6 (amended): for every input other than an empty raster (origWidth =
\* origHeight = 0) with a negative targetMaxSize, the returned grid has
\* length width * height, width = floor(origWidth/scale) and height =
\* floor(origHeight/scale) with scale = max(origWidth, origHeight) /
\* targetMaxSize when the larger dimension exceeds targetMaxSize and 1
\* otherwise, and neither dimension exceeds max(targetMaxSize, 0) when
\* downsampling applies; in the excepted case both dimensions are NaN and
\* the grid is empty.
C6_Dimensions ==
  DemDone =>
    IF EmptyRasterNegativeTarget
      THEN /\ result.width = NaN
           /\ result.height = NaN
           /\ Len(result.data) = 0
      ELSE C6_Body

C6_Witness ==
  /\ DemDone
  /\ origWidth = 3
  /\ origHeight = 2
  /\ targetMaxSize = 2
  /\ result.width = Num(2)
  /\ result.height = Num(1)
  /\ Len(result.data) = 2

(***************************************************************************)
(* Properties of calculateHydraulics                                       *)
(***************************************************************************)
HydDone == pc = "hyd_done"
AreaComputed == pc \in {"hyd_volume", "hyd_concentration", "hyd_year",
                        "hyd_return", "hyd_done"}

OneThousandth == RDiv(RInt(1), RInt(1000))

\* C9: concentration = massTons * 1,000,000 / volume when volume > 0.001
\* and 0 when volume <= 0.001 (so 0 at every elevation <= 4304); no
\* division by a volume <= 0.001 is performed; volume 1,000,000 with
\* mass 1000 gives 1000.
C9_ConcentrationGuard ==
  /\ HydDone =>
        /\ IF RLt(OneThousandth, stats.volume)
             THEN REq(RMul(stats.concentration, stats.volume),
                      RMul(substanceMassTons, RInt(1000000)))
             ELSE RSign(stats.concentration) = 0
        /\ (RLe(absoluteElevation, RInt(4304))
              => RSign(stats.concentration) = 0)
  /\ divisor.used => RLt(OneThousandth, divisor.by)
  /\ REq(ConcentrationOf(RInt(1000000), RInt(1000)).value, RInt(1000))

C9_Witness ==
  /\ HydDone
  /\ REq(absoluteElevation, JustAboveLimit)
  /\ RSign(stats.volume) > 0
  /\ RLe(stats.volume, OneThousandth)
  /\ RSign(substanceMassTons) > 0
  /\ RSign(stats.concentration) = 0
  /\ ~ divisor.used

AreaNotPositive == RSign(stats.surfaceArea) <= 0

\* C10 as stated: the estimated year is undefined whenever the computed
\* surface area is <= 0, and an integer otherwise.
C10_YearUndefinedAtZeroArea ==
  HydDone =>
    IF AreaNotPositive THEN ~ stats.estimatedYear.defined
    ELSE stats.estimatedYear.defined

\* the integer nearest to (area/1,000,000 + 1483.3) / 0.7903, halves up
IsRoundedYear(yr, area) ==
  LET q == RDiv(RAdd(RDiv(area, RInt(1000000)), RDiv(RInt(14833), RInt(10))),
                RDiv(RInt(7903), RInt(10000)))
      half == RDiv(RInt(1), RInt(2))
  IN /\ RLe(RSub(RInt(yr), half), q)
     /\ RLt(q, RAdd(RInt(yr), half))

\* C10 (amended): the estimated year returned by calculateHydraulics is
\* never undefined; it is always the integer
\* round((area/1,000,000 + 1483.3) / 0.7903), which is 1877 whenever the
\* computed surface area is <= 0.
C10_YearAlwaysInteger ==
  HydDone =>
    /\ stats.estimatedYear.defined
    /\ IsRoundedYear(stats.estimatedYear.v, stats.surfaceArea)
    /\ (AreaNotPositive => stats.estimatedYear.v = 1877)

C10_Witness ==
  /\ HydDone
  /\ AreaNotPositive
  /\ REq(absoluteElevation, RInt(4303))
  /\ stats.estimatedYear = Defined(1877)


(***************************************************************************)
(* Properties of getElevationFromYear                                      *)
(***************************************************************************)
SearchDone == pc = "srch_done"

\* the claim's own statement of the implied target area, in m2
ImpliedTargetArea(yr) ==
  RMax(RInt(0),
       RMul(RSub(RMul(RDecimal(1, <<7903>>, 1), yr),
                 RDecimal(1, <<1483, 3000>>, 1)),
            RInt(1000000)))

TargetAtMostOne == RLe(ImpliedTargetArea(year), RInt(1))

\* C11: for every year whose implied target area is at most 1 m2 (negative
\* areas of the linear model included), getElevationFromYear returns exactly
\* 4304 and never enters the loop body.
C11_ShortCircuitReturnsLow ==
  TargetAtMostOne =>
    /\ pc # "srch_loop"
    /\ SearchDone => /\ REq(ElevValue(elevation), RInt(4304))
                     /\ exit = "short"
                     /\ iter = 0
                     /\ mid = <<>>

\* a year whose target area lies strictly between 0 and 1 m2 has returned
C11_Witness ==
  /\ SearchDone
  /\ TargetAtMostOne
  /\ RLt(RInt(0), targetAreaM2)
  /\ exit = "short"


InBracket(u) ==
  /\ RLe(RInt(4304), ElevValue(u))
  /\ RLe(ElevValue(u), RInt(4450))

\* C12: for every year the search runs at most 64 iterations, after the
\* 64th the only step left is the return, and the value returned lies
\* inside [4304, 4450]; when the loop is exhausted the value is the
\* midpoint of the remaining bracket.
C12_TerminatesInsideBracket ==
  /\ iter <= 64
  /\ (pc = "srch_loop" /\ iter = 64) => ENABLED SearchExhausted
  /\ SearchDone =>
       /\ exit \in {"short", "early", "exhausted"}
       /\ InBracket(elevation)
       /\ exit = "exhausted" =>
            REq(ElevValue(elevation), MidpointExact(low, high))

\* a search that used all 64 iterations has returned
C12_Witness ==
  /\ SearchDone
  /\ exit = "exhausted"
  /\ iter = 64


\* the year the returned elevation maps back to:
\* calculateYearFromArea(calculatePolynomialArea(elevation) / 1,000,000)
YearOfReturnedElevation ==
  calculateYearFromArea(
    RDiv(calculatePolynomialArea(ElevValue(elevation)), RInt(1000000)))

AreaAtLow == calculatePolynomialArea(RInt(4304))
AreaAtHigh == calculatePolynomialArea(RInt(4450))

\* the area the calibration gives the year lies between the area at 4304 and
\* the area at 4450
InPracticalRange ==
  LET target == RMul(RSub(RMul(RDecimal(1, <<7903>>, 1), year),
                          RDecimal(1, <<1483, 3000>>, 1)),
                     RInt(1000000))
  IN \/ RLe(AreaAtLow, target) /\ RLe(target, AreaAtHigh)
     \/ RLe(AreaAtHigh, target) /\ RLe(target, AreaAtLow)

\* 1 m2 is 0.000001 km2, which the linear model turns into 0.000001 / 0.7903
\* years
WithinYearTolerance(y1, y2) ==
  RLe(RMul(RAbs(RSub(y1, y2)), RDecimal(1, <<7903>>, 1)),
      RDecimal(1, <<100>>, 2))

\* C13: round trip.  For every year whose target area lies between the
\* area at 4304 and the area at 4450, the year computed back from the area
\* of the returned elevation equals the year within the 1 m2 tolerance
\* carried through the linear year model.
C13_RoundTrip ==
  (SearchDone /\ InPracticalRange) =>
    WithinYearTolerance(YearOfReturnedElevation, year)


InLoop == pc = "srch_loop"

\* bracket widths in double spacings (2^-40 m)
Width == NatSub(high, low)
PrevWidth == NatSub(prevHigh, prevLow)

AreaOfUnits(u) == calculatePolynomialArea(ElevValue(u))

BracketOrdered ==
  /\ NatCmp(ElevUnits(4304), low) <= 0
  /\ NatCmp(low, high) <= 0
  /\ NatCmp(high, ElevUnits(4450)) <= 0

\* the area function is non-decreasing over the bracket, tested at its ends
\* and first midpoint
AreaNonDecreasingOnBracket ==
  /\ RLe(AreaAtLow, calculatePolynomialArea(RInt(4377)))
  /\ RLe(calculatePolynomialArea(RInt(4377)), AreaAtHigh)

TargetBracketedAtStart ==
  RLe(AreaAtLow, targetAreaM2) /\ RLe(targetAreaM2, AreaAtHigh)

EarlyReturnWithinEpsilon ==
  (SearchDone /\ exit = "early") =>
    /\ elevation = mid
    /\ RLt(RAbs(RSub(AreaOfUnits(elevation), targetAreaM2)), RInt(1))

\* C18 as stated: at the start of every iteration 4304 <= low <= high <= 4450
\* and the width is exactly half of the previous iteration's width; if the
\* area is non-decreasing on the bracket and the target lies between the
\* areas of its ends, then area(low) <= target <= area(high); an early
\* return happens only within 1 m2 of the target.
C18_WidthHalvesExactly ==
  /\ InLoop =>
       /\ BracketOrdered
       /\ iter > 0 => NatAdd(Width, Width) = PrevWidth
       /\ (AreaNonDecreasingOnBracket /\ TargetBracketedAtStart) =>
            /\ RLe(AreaOfUnits(low), targetAreaM2)
            /\ RLe(targetAreaM2, AreaOfUnits(high))
  /\ EarlyReturnWithinEpsilon

\* C18 (amended): at the start of every iteration 4304 <= low <= high <= 4450;
\* the width is half of the previous one exactly when the previous width is
\* an even number of double spacings and otherwise is that half rounded to a
\* neighbouring double; low is 4304 or a midpoint whose area was at least
\* 1 m2 below the target, high is 4450 or a midpoint whose area was at least
\* 1 m2 above it; an early return happens only at the midpoint, within
\* 1 m2 of the target.
C18_BracketInvariant ==
  /\ InLoop =>
       /\ BracketOrdered
       /\ iter > 0 =>
            IF PrevWidth = <<>> \/ PrevWidth[1] % 2 = 0
            THEN NatAdd(Width, Width) = PrevWidth
            ELSE \/ NatAdd(NatAdd(Width, Width), <<1>>) = PrevWidth
                 \/ NatAdd(Width, Width) = NatAdd(PrevWidth, <<1>>)
       /\ \/ low = ElevUnits(4304)
          \/ RLe(AreaOfUnits(low), RSub(targetAreaM2, RInt(1)))
       /\ \/ high = ElevUnits(4450)
          \/ RLe(RAdd(targetAreaM2, RInt(1)), AreaOfUnits(high))
  /\ EarlyReturnWithinEpsilon

\* an iteration starts after a halving that had to be rounded, with the upper
\* end moved
C18_Witness ==
  /\ InLoop
  /\ iter > 0
  /\ PrevWidth # <<>>
  /\ PrevWidth[1] % 2 = 1
  /\ high # ElevUnits(4450)


\* a colour has been returned for the arguments held in height and max
ColorReturned ==
  \/ pc = "col_done"
  \/ pc \in {"mesh_loop", "mesh_done"} /\ vertex > 0

IsColor(c, stop) ==
  \A ch \in 1..3 : c[ch].k = "num" /\ REq(c[ch].v, stop[ch])

\* C14: for every max > 0 a height of 0 or below gets exactly the sand
\* colour (0.82, 0.78, 0.55) and a height of max or above gets exactly the
\* snow colour (0.95, 0.95, 1.0).
C14_EndColours ==
  (ColorReturned /\ max > 0) =>
    /\ height <= 0 => IsColor(color, SAND)
    /\ height >= max => IsColor(color, SNOW)

\* a height above a positive max has been coloured
C14_Witness ==
  /\ ColorReturned
  /\ max > 0
  /\ height > max
  /\ IsColor(color, SNOW)

\* C15: for every height and every maxHeight, 0 included, each of the three
\* returned channels is a number in [0, 1].
C15_ChannelsInUnitInterval ==
  ColorReturned =>
    \A ch \in 1..3 :
      /\ color[ch].k = "num"
      /\ RLe(RInt(0), color[ch].v)
      /\ RLe(color[ch].v, RInt(1))

\* C16: a normalized height on a band boundary belongs to the band that
\* starts there: t = 0.1 takes the grass-to-rock branch and gets exactly the
\* grass colour, t = 0.5 takes the rock-to-snow branch and gets exactly the
\* rock colour; every t in [0, 1] takes the one branch of [0, 0.1),
\* [0.1, 0.5), [0.5, 1] that contains it.
C16_BandBoundaries ==
  (ColorReturned /\ t.k = "num") =>
    /\ RLe(RInt(0), t.v) /\ RLe(t.v, RInt(1))
    /\ band = "sand_grass" <=> RLt(t.v, SandEnd)
    /\ band = "grass_rock" <=> (RLe(SandEnd, t.v) /\ RLt(t.v, GrassEnd))
    /\ band = "rock_snow" <=> RLe(GrassEnd, t.v)
    /\ REq(t.v, SandEnd) => IsColor(color, GRASS)
    /\ REq(t.v, GrassEnd) => IsColor(color, ROCK)

\* a height on the first boundary has been coloured by TerrainMesh
C16_Witness ==
  /\ pc = "mesh_loop"
  /\ vertex > 0
  /\ t.k = "num"
  /\ REq(t.v, SandEnd)
  /\ band = "grass_rock"


OverlayDone == pc = "ovl_done"

AbsoluteWaterLevel == RAdd(minElevation, waterLevel)

\* C20: after handleManualSet or handleYearSet has parsed a number, the
\* absolute elevation minElevation + waterLevel lies in [4304, 4405]; when
\* the search for the year returned more than 4405 it is exactly 4405; when
\* the text is not a number the water level is what it was.
C20_TypedLevelsInRange ==
  OverlayDone =>
    IF handled.parsed.k = "nan" THEN waterLevel = handled.before
    ELSE /\ RLe(RInt(4304), AbsoluteWaterLevel)
         /\ RLe(AbsoluteWaterLevel, RInt(4405))
         /\ (handled.handler = "year"
               /\ RLt(RInt(4405), ElevValue(elevation)))
              => REq(AbsoluteWaterLevel, RInt(4405))

\* a year whose search returned more than 4405 has been set
C20_Witness ==
  /\ OverlayDone
  /\ handled.handler = "year"
  /\ handled.parsed.k = "num"
  /\ RLt(RInt(4405), ElevValue(elevation))
  /\ REq(AbsoluteWaterLevel, RInt(4405))


\* the difference original - minHeight of output cell k
ShiftOf(k) == reads[k][4].v - result.minHeight.v

Distance(a, b) == IF a < b THEN b - a ELSE a - b

ExtremaReturned ==
  /\ result.minHeight = MinOfSet(ValidReadVals)
  /\ result.maxHeight
       = Num(MaxOfSet(ValidReadVals).v - MinOfSet(ValidReadVals).v)

\* C19 as stated: with at least one valid sample, minHeight is the smallest
\* valid sample and maxHeight the largest minus the smallest; for every
\* valid cell output + minHeight equals the original sample, and the largest
\* output equals maxHeight.
C19_ShiftIsExact ==
  (DemDone /\ ValidReadVals # {}) =>
    /\ ExtremaReturned
    /\ \A k \in 1..Len(reads) :
         ~ ClaimNoData(reads[k][4]) =>
           result.data[k].v + result.minHeight.v = reads[k][4].v
    /\ MaxOfSet(Cells) = result.maxHeight

\* C19 (amended): with at least one valid sample, minHeight is the smallest
\* valid sample and maxHeight the largest minus the smallest; every valid
\* cell holds original - minHeight rounded to a float32, which is off by at
\* most 2^-24 of that difference and exact when the difference has at most
\* 24 significant bits; the largest output is maxHeight rounded the same
\* way.
C19_ShiftWithinFloat32 ==
  (DemDone /\ ValidReadVals # {}) =>
    /\ ExtremaReturned
    /\ \A k \in 1..Len(reads) :
         ~ ClaimNoData(reads[k][4]) =>
           /\ result.data[k].k = "num"
           /\ Distance(result.data[k].v, ShiftOf(k))
                <= ShiftOf(k) \div Pow2(24)
           /\ BitLength(ShiftOf(k)) <= 24 => result.data[k].v = ShiftOf(k)
    /\ Distance(MaxOfSet(Cells).v, result.maxHeight.v)
         <= result.maxHeight.v \div Pow2(24)
    /\ BitLength(result.maxHeight.v) <= 24
         => MaxOfSet(Cells) = result.maxHeight

\* a cell 8192 m above a lowest cell of -3/4096 m has been shifted and
\* rounded
C19_Witness ==
  /\ DemDone
  /\ ValidReadVals # {}
  /\ \E k \in 1..Len(reads) :
       /\ ~ ClaimNoData(reads[k][4])
       /\ result.data[k].v # ShiftOf(k)

(***************************************************************************)
(* Properties of the App: the animation loop                               *)
(***************************************************************************)
IsFrame == lastEvent.kind \in {"rose", "rise_stopped"}

\* the level before the latest frame raised by a thousandth of maxHeight
RaisedLevel ==
  lastEvent.before.waterLevel + lastEvent.before.config.maxHeight

\* 1.1 * maxHeight in thousandths of a metre, for the terrain of the latest
\* frame
TopLevel == 1100 * lastEvent.before.config.maxHeight

\* C21: while auto-rise is on, an animation frame either raises the water
\* level by exactly maxHeight / 1000, or, when the raised level would be at
\* least 1.1 * maxHeight, leaves the level as it was and turns auto-rise
\* off; so a frame never raises the level to 1.1 * maxHeight or beyond, and
\* never lowers it.
C21_AutoRiseStep ==
  IsFrame =>
    /\ lastEvent.before.isAutoRising
    /\ IF RaisedLevel >= TopLevel
         THEN /\ lastEvent.kind = "rise_stopped"
              /\ waterLevel = lastEvent.before.waterLevel
              /\ ~ isAutoRising
         ELSE /\ lastEvent.kind = "rose"
              /\ waterLevel = RaisedLevel
              /\ waterLevel < TopLevel
              /\ isAutoRising
    /\ waterLevel >= lastEvent.before.waterLevel

\* the level has risen from 0 to 43.96 m over a terrain 40 m high, and the
\* frame that would have reached 44 m has turned auto-rise off
C21_Witness ==
  /\ lastEvent.kind = "rise_stopped"
  /\ lastEvent.before.config.maxHeight = 40
  /\ waterLevel = 43960
  /\ ~ isAutoRising

RiseStopped == ~ isAutoRising /\ lastEvent.kind = "rise_stopped"

\* C22: once auto-rise has been turned on, and nothing but animation frames
\* happens, auto-rise eventually turns itself off, and no frame changes the
\* water level after that -- for every maxHeight >= 0 and every water level
\* the animation starts from.
C22_TurnsItselfOff ==
  /\ isAutoRising ~> RiseStopped
  /\ [][RiseStopped => waterLevel' = waterLevel]_vars

(***************************************************************************)
(* Properties of the App: the terrain handlers                             *)
(***************************************************************************)
\* no handler is in the middle of its synchronous part
Settled == pc = "app_idle"

\* the latest handler installed a terrain
TerrainChanged == lastEvent.kind \in {"load", "image", "reset"}

GridMatchesConfig == Len(heightData) = config.width * config.depth

\* C23: every successful terrain change (GeoTIFF load, image upload, reset)
\* sets the water level to 0, adds exactly 1 to terrainVersion and installs
\* a grid and a config with heightData.length = config.width * config.depth;
\* and in every settled state, whatever loads, uploads and resets have
\* interleaved, heightData is empty (before the first change) or matches
\* the config.
C23_TerrainChange ==
  Settled =>
    /\ TerrainChanged =>
         /\ REq(waterLevel, RInt(0))
         /\ terrainVersion = lastEvent.before.terrainVersion + 1
         /\ GridMatchesConfig
    /\ \/ terrainVersion = 0 /\ heightData = <<>>
       \/ GridMatchesConfig

\* a GeoTIFF load that waited while the level was typed and the terrain
\* was reset has replaced the 128 x 128 example by its two cells
C23_Witness ==
  /\ Settled
  /\ lastEvent.kind = "load"
  /\ ~ lastEvent.alone
  /\ lastEvent.before.config = DEFAULT_CONFIG
  /\ Len(lastEvent.before.heightData) = 128 * 128
  /\ ~ REq(lastEvent.before.waterLevel, RInt(0))
  /\ Len(heightData) = 2
  /\ terrainVersion = 2

LoadFailed == lastEvent.kind = "load_failed"

\* the state the five setters of loadTerrainFromBlob write
Terrain(state) ==
  <<state.config, state.heightData, state.minElevation, state.waterLevel,
    state.terrainVersion>>

\* C24: when parsing or processing fails inside loadTerrainFromBlob, the
\* call returns false and config, heightData, minElevation, waterLevel and
\* terrainVersion are what they were when its catch block was entered, and,
\* unless another handler wrote them while the call waited, what they were
\* when the call was made.
C24_FailedLoadChangesNothing ==
  (Settled /\ LoadFailed) =>
    /\ lastEvent.returned = FALSE
    /\ Terrain(AppState) = Terrain(lastEvent.before)
    /\ lastEvent.alone => Terrain(AppState) = Terrain(lastEvent.started)

\* a load has failed after an earlier load installed a raster and a level
\* was typed
C24_Witness ==
  /\ Settled
  /\ LoadFailed
  /\ lastEvent.alone
  /\ terrainVersion = 1
  /\ Len(heightData) > 0
  /\ ~ REq(waterLevel, RInt(0))

=============================================================================
